---- MODULE Spec2Model ----
(***************************************************************************)
(* CandidateBios pipeline (src/candidate_bios): the search stage           *)
(* (b_search.py), the scrape / prompt stage (c_retrieval.py) and the       *)
(* extraction stage (d_extraction.py), modelled as state machines.         *)
(*                                                                         *)
(* Time is discrete.  A worker of the scrape stage needs dur[i] ticks to   *)
(* complete; the coordinating thread waits for the futures of a batch in   *)
(* submission order, each wait lasting at most Timeout ticks.  Actions of  *)
(* the coordinating thread and worker starts / completions take no time,   *)
(* so Tick is enabled only when nothing else can run.                      *)
(***************************************************************************)
EXTENDS Integers, Sequences, FiniteSets, TLC

\* ---------------------------------------------------------------- bounds
NumCands == 4        \* rows of b1_searches.csv
GroupSize == 3       \* batch size handed to splitCandidates (100 in retrieve)
Timeout == 2         \* retrieve(timeout=...), in ticks
MaxDur == 3          \* longest finite running time of a bioData worker
MaxWorkers == 2      \* threads of one ThreadPoolExecutor()
NumPrompts == 2      \* rows of c1_retrievals.csv
NumReps == 3         \* candidates read by search

\* ------------------------------------------------------ program constants
firstBatch == 0
lastBatch == 100
KeysOfSearchRow == 8
MaxAttempts == 6     \* stop_after_attempt(6)

VARIABLES
    pc,                 \* position of the coordinating thread in retrieve
    batch,              \* index (1-based) of the group being scraped
    idx,                \* position in the group of the future being awaited
    waited,             \* ticks spent in the current future.result(timeout)
    wstate,             \* per candidate: state of its bioData future
    elapsed,            \* per candidate: ticks its bioData worker has run
    dur,                \* per candidate: ticks its bioData worker needs
    fate,               \* per candidate: "returns", "raises" or "hangs"
    link,               \* per candidate: the dictionary shared by reference
    bios,               \* retrieve: bios
    timeoutCandidates,  \* module global timeoutCandidates
    pstate,             \* per candidate: state of its chatPrompt future
    prompts,            \* retrieve: prompts
    errors,             \* errors.txt, one entry per appended message
    files,              \* names of the CSV files written so far
    c1,                 \* rows of c1_retrievals.csv
    c2,                 \* rows of c2_scrapingTimeouts.csv
    epc,                \* position of the coordinating thread in extract
    fstate,             \* per prompt: state of its chatFeed future
    attempts,           \* per prompt: attempts of the wrapped chatFeed call
    prec,               \* per prompt: the prompt dictionary (shared by reference)
    outputs,            \* extract: outputs
    promptErrors,       \* extract: promptErrors
    xstate,             \* per prompt: state of its parse future
    parsed,             \* per prompt: value returned by parse
    rawResults,         \* extractCSV: rows of rawResults
    parseErrors,        \* extractCSV: parseErrors
    d1,                 \* rows of d1_extractions.csv
    d2,                 \* rows of d2_promptErrors.csv
    d3,                 \* rows of d3_parseErrors.csv
    spc,                \* position of the thread in search
    sr,                 \* search: argument r
    si,                 \* search: index of the candidate being searched
    gattempt,           \* attempts of the current googleSearch call
    searchUrls,         \* search: urls
    b1,                 \* rows of b1_searches.csv
    ppc,                \* position of the thread in gatherData / gatherRow
    pfn,                \* the entry point called: "gatherData" or "gatherRow"
    pn,                 \* gatherData: argument n
    pr,                 \* gatherData / gatherRow: argument r
    pread,              \* gatherData: argument read
    gtext,              \* grabber: argument information
    gphrase,            \* grabber: argument phrase
    gsummary,           \* grabber: the returned summary
    cinfo,              \* chatPrompt: the dictionary info
    cresults,           \* the prompts returned by successive chatPrompt calls
    bpc,                \* position of the thread in bioData
    blink,              \* bioData: the dictionary link
    burl,               \* bioData: index of the url being scraped
    information,        \* bioData: local variable information
    summary,            \* bioData: local variable summary
    summaries,          \* bioData: local variable summaries
    tfn,                \* utils: the function called
    ttext,              \* utils: argument text
    tbudget,            \* utils: argument max_tokens / chunk_size
    tout,               \* utils: what the call returned or raised
    surls,              \* splitCandidates: argument urls
    sgroupSize,         \* splitCandidates: argument groupSize
    sout,               \* splitCandidates: what the call returned or raised
    rprompts,           \* extractAgain: prompts
    attempt,            \* extractAgain: argument attempt
    d4,                 \* rows of d4_reruns.csv
    qpc,                \* position of the thread in randomRead
    qdf,                \* randomRead: the rows of the source table
    qn,                 \* randomRead: argument n
    qi,                 \* randomRead: local variable i
    reps,               \* randomRead: reps
    alreadyRead,        \* randomRead: keys of alreadyRead
    kpc,                \* position of the thread in the batch loop of retrieve
    kn,                 \* number of rows of the search data
    kgroups,            \* cands[firstBatch:lastBatch]
    kfate,              \* how the bioData workers of the run end
    kbatch,             \* index of enumerate(cands[firstBatch:lastBatch])
    kdispatched,        \* positions submitted to bioData
    kbios,              \* positions appended to bios
    ktimeouts,          \* positions appended to timeoutCandidates
    kfailures,          \* positions whose exception went to errors.txt
    documents,          \* run_violation_program: textdata of each document
    vidx,               \* progress_apply: index of the row being processed
    violations,         \* progress_apply: the rows returned so far
    voutcomes           \* what program(...) did for each row

rvarsNoFiles == <<pc, batch, idx, waited, wstate, elapsed, dur, fate, link, bios,
                  timeoutCandidates, pstate, prompts, c1, c2>>

rvars == <<rvarsNoFiles, files>>

evars == <<epc, fstate, attempts, prec, outputs, promptErrors, xstate, parsed,
           rawResults, parseErrors, d1, d2, d3>>

svars == <<spc, sr, si, gattempt, searchUrls, b1>>

pvars == <<ppc, pfn, pn, pr, pread>>

gvars == <<gtext, gphrase, gsummary>>

cvars == <<cinfo, cresults>>

bvars == <<bpc, blink, burl, information, summary, summaries>>

tvars == <<tfn, ttext, tbudget, tout>>

lvars == <<surls, sgroupSize, sout>>

avars == <<rprompts, attempt, d4>>

qvars == <<qpc, qdf, qn, qi, reps, alreadyRead>>

kvars == <<kpc, kn, kgroups, kfate, kbatch, kdispatched, kbios, ktimeouts, kfailures>>

vvars == <<documents, vidx, violations, voutcomes>>

wvars == <<qvars, kvars, vvars>>

uvars == <<tvars, lvars, avars, wvars>>

xvars == <<pvars, gvars, cvars, bvars, uvars>>

vars == <<rvars, evars, svars, errors, xvars>>

\* ---------------------------------------------------------------- helpers
Range(s) == {s[k] : k \in DOMAIN s}

Min(a, b) == IF a < b THEN a ELSE b

\* Python slice s[lo:hi] for 0 <= lo
Slice(s, lo, hi) == SubSeq(s, lo + 1, Min(hi, Len(s)))

Cands == 1..NumCands

\* rows of c1_retrievals.csv read by extract
Prompts == 1..NumPrompts

\* candidates chosen by search
Reps == 1..NumReps

NoResponse == <<"absent">>

NoValue == [tag |-> "none"]

\* urls of retrieve: one dictionary per row of the search data, in row order
urls == [i \in 1..NumCands |-> i]

\* variant of splitCandidates: an incomplete last batch is left out
splitCandidatesFullOnly(us, groupSize) ==
    [b \in 1..(Len(us) \div groupSize) |->
        Slice(us, (b - 1) * groupSize, (b - 1) * groupSize + groupSize)]

\* c_retrieval.splitCandidates
splitCandidates(us, groupSize) ==
    [b \in 1..((Len(us) + groupSize - 1) \div groupSize) |->
        Slice(us, (b - 1) * groupSize, (b - 1) * groupSize + groupSize)]

cands == splitCandidates(urls, GroupSize)

\* cands[firstBatch:lastBatch]
Groups == Slice(cands, firstBatch, lastBatch)

Group == Groups[batch]

\* len(cand) of a dictionary: the 8 columns read from the search data plus
\* "Prompt" once bioData has stored it
NumKeys(i) == IF link[i].Prompt = "none" THEN KeysOfSearchRow
              ELSE KeysOfSearchRow + 1

Finished(i) == wstate[i] \in {"returned", "raised"}

Running == {i \in Cands : wstate[i] = "running"}

Queued == {i \in Cands : wstate[i] = "queued"}

\* the work queue of the executor is FIFO: the next item to start
NextQueued == CHOOSE i \in Queued : \A j \in Queued : i <= j

CanStart == Queued # {} /\ Cardinality(Running) < MaxWorkers

CanFinish(i) == wstate[i] = "running" /\ fate[i] # "hangs" /\ elapsed[i] = dur[i]

\* ------------------------------------------------------------------- Init
\* the extract stage before extract is called
ExtractIdle ==
    /\ epc = "idle"
    /\ fstate = [p \in Prompts |-> "new"]
    /\ attempts = [p \in Prompts |-> 0]
    /\ prec = [p \in Prompts |-> [Response |-> NoResponse]]
    /\ outputs = <<>>
    /\ promptErrors = <<>>
    /\ xstate = [p \in Prompts |-> "new"]
    /\ parsed = [p \in Prompts |-> NoValue]
    /\ rawResults = <<>>
    /\ parseErrors = <<>>
    /\ d1 = <<>>
    /\ d2 = <<>>
    /\ d3 = <<>>

\* a local variable that has not been assigned
Unbound == <<"unbound">>

\* the outcome of a call that has not been made
NotCalled == [kind |-> "none"]

\* no call of truncate_text_by_max_tokens or chunk_text under test
TokenIdle ==
    /\ tfn = "none"
    /\ ttext = <<>>
    /\ tbudget = 1
    /\ tout = NotCalled

\* no call of splitCandidates under test
SplitIdle ==
    /\ surls = <<>>
    /\ sgroupSize = 1
    /\ sout = NotCalled

\* no call of extractAgain in progress
RerunIdle ==
    /\ rprompts = <<>>
    /\ attempt = "first"
    /\ d4 = <<>>

\* no call of randomRead in progress
ReadIdle ==
    /\ qpc = "idle"
    /\ qdf = <<>>
    /\ qn = 1
    /\ qi = 0
    /\ reps = <<>>
    /\ alreadyRead = {}

\* the batch loop of retrieve is not under test
BatchesIdle ==
    /\ kpc = "idle"
    /\ kn = 0
    /\ kgroups = <<>>
    /\ kfate = "returns"
    /\ kbatch = 0
    /\ kdispatched = {}
    /\ kbios = {}
    /\ ktimeouts = {}
    /\ kfailures = {}

\* run_violation_program is not running
ViolationsIdle ==
    /\ documents = <<>>
    /\ vidx = 1
    /\ violations = <<>>
    /\ voutcomes = <<>>

ProgramsIdle ==
    /\ ReadIdle
    /\ BatchesIdle
    /\ ViolationsIdle

UtilitiesIdle ==
    /\ TokenIdle
    /\ SplitIdle
    /\ RerunIdle
    /\ ProgramsIdle

\* no call of gatherData / gatherRow in progress
PipelineIdle ==
    /\ ppc = "idle"
    /\ pfn = "gatherData"
    /\ pn = 1
    /\ pr = 4
    /\ pread = "random"

\* no call of grabber under test
GrabberIdle ==
    /\ gtext = <<>>
    /\ gphrase = "last"
    /\ gsummary = Unbound

\* no call of chatPrompt under test
PromptIdle ==
    /\ cinfo = [Full |-> <<>>, State |-> "s", MinYear |-> "y", Prompt |-> <<>>]
    /\ cresults = <<>>

\* no call of bioData under test
BioIdle ==
    /\ bpc = "idle"
    /\ blink = [Last |-> "nan", First |-> "nan", Middle |-> "nan",
                Sources |-> <<>>, Prompt |-> Unbound]
    /\ burl = 1
    /\ information = Unbound
    /\ summary = Unbound
    /\ summaries = <<>>

FunctionsIdle ==
    /\ GrabberIdle
    /\ PromptIdle
    /\ BioIdle

\* the search stage before search is called
SearchIdle ==
    /\ spc = "idle"
    /\ sr = 4
    /\ si = 1
    /\ gattempt = 1
    /\ searchUrls = <<>>
    /\ b1 = <<>>

RetrieveIdle ==
    /\ pc = "idle"
    /\ batch = 1
    /\ idx = 1
    /\ waited = 0
    /\ wstate = [i \in Cands |-> "new"]
    /\ elapsed = [i \in Cands |-> 0]
    /\ dur = [i \in Cands |-> 1]
    /\ fate = [i \in Cands |-> "returns"]
    /\ link = [i \in Cands |-> [Prompt |-> "none"]]
    /\ bios = <<>>
    /\ timeoutCandidates = <<>>
    /\ pstate = [i \in Cands |-> "new"]
    /\ prompts = <<>>
    /\ c1 = <<>>
    /\ c2 = <<>>

InitRetrieve ==
    /\ UtilitiesIdle
    /\ ExtractIdle
    /\ SearchIdle
    /\ PipelineIdle
    /\ FunctionsIdle
    /\ pc = IF Len(Groups) = 0 THEN "prompt" ELSE "submit"
    /\ batch = 1
    /\ idx = 1
    /\ waited = 0
    /\ wstate = [i \in Cands |-> "new"]
    /\ elapsed = [i \in Cands |-> 0]
    /\ dur \in [Cands -> 1..MaxDur]
    /\ fate \in [Cands -> {"returns", "raises", "hangs"}]
    /\ \A i \in Cands : fate[i] = "hangs" => dur[i] = 1
    /\ link = [i \in Cands |-> [Prompt |-> "none"]]
    /\ bios = <<>>
    /\ timeoutCandidates = <<>>
    /\ pstate = [i \in Cands |-> "new"]
    /\ prompts = <<>>
    /\ errors = <<>>
    /\ files = {}
    /\ c1 = <<>>
    /\ c2 = <<>>

\* ------------------------------------------------- scrape stage of retrieve
\* variant of SubmitBatch: one executor for the whole list, every group is
\* submitted at once
SubmitAllGroups ==
    /\ pc = "submit"
    /\ wstate' = [i \in Cands |-> IF wstate[i] = "new" THEN "queued" ELSE wstate[i]]
    /\ pc' = "wait"
    /\ idx' = 1
    /\ waited' = 0
    /\ UNCHANGED <<batch, elapsed, dur, fate, link, bios, timeoutCandidates,
                   pstate, prompts, files, c1, c2, errors>>
    /\ UNCHANGED <<evars, svars, xvars>>

\* executor.submit(bioData, link) for every link of the group
SubmitBatch ==
    /\ pc = "submit"
    /\ wstate' = [i \in Cands |-> IF i \in Range(Group) THEN "queued" ELSE wstate[i]]
    /\ pc' = "wait"
    /\ idx' = 1
    /\ waited' = 0
    /\ UNCHANGED <<batch, elapsed, dur, fate, link, bios, timeoutCandidates,
                   pstate, prompts, files, c1, c2, errors>>
    /\ UNCHANGED <<evars, svars, xvars>>

\* a free thread of the pool takes the oldest queued work item
WorkerStart ==
    /\ CanStart
    /\ wstate' = [wstate EXCEPT ![NextQueued] = "running"]
    /\ UNCHANGED <<pc, batch, idx, waited, elapsed, dur, fate, link, bios,
                   timeoutCandidates, pstate, prompts, files, c1, c2, errors>>
    /\ UNCHANGED <<evars, svars, xvars>>

\* bioData returns: link["Prompt"] is set on the shared dictionary
BioDataReturn(i) ==
    /\ CanFinish(i)
    /\ fate[i] = "returns"
    /\ link' = [link EXCEPT ![i].Prompt = "scraped"]
    /\ wstate' = [wstate EXCEPT ![i] = "returned"]
    /\ UNCHANGED <<pc, batch, idx, waited, elapsed, dur, fate, bios,
                   timeoutCandidates, pstate, prompts, files, c1, c2, errors>>
    /\ UNCHANGED <<evars, svars, xvars>>

\* bioData raises before it stores the prompt
BioDataRaise(i) ==
    /\ CanFinish(i)
    /\ fate[i] = "raises"
    /\ wstate' = [wstate EXCEPT ![i] = "raised"]
    /\ UNCHANGED <<pc, batch, idx, waited, elapsed, dur, fate, link, bios,
                   timeoutCandidates, pstate, prompts, files, c1, c2, errors>>
    /\ UNCHANGED <<evars, svars, xvars>>

\* the coordinating thread moves to the next future of the group, or leaves
\* the for loop and enters the exit of the with block
Advance ==
    IF idx < Len(Group)
    THEN /\ idx' = idx + 1
         /\ waited' = 0
         /\ pc' = "wait"
    ELSE /\ idx' = idx
         /\ waited' = 0
         /\ pc' = "shutdown"

Awaited == Group[idx]

\* future.result(timeout) returns the worker's result
ResultReturn ==
    /\ pc = "wait"
    /\ wstate[Awaited] = "returned"
    /\ bios' = Append(bios, Awaited)
    /\ Advance
    /\ UNCHANGED <<batch, wstate, elapsed, dur, fate, link, timeoutCandidates,
                   pstate, prompts, files, c1, c2, errors>>
    /\ UNCHANGED <<evars, svars, xvars>>

\* variant of ResultTimeout: the timed-out item is also appended to bios
ResultTimeoutKeepsItem ==
    /\ pc = "wait"
    /\ ~Finished(Awaited)
    /\ waited = Timeout
    /\ timeoutCandidates' = Append(timeoutCandidates, Awaited)
    /\ bios' = Append(bios, Awaited)
    /\ errors' = Append(errors, [item |-> Awaited, fn |-> "bioData", exc |-> "TimeoutError"])
    /\ Advance
    /\ UNCHANGED <<batch, wstate, elapsed, dur, fate, link,
                   pstate, prompts, files, c1, c2>>
    /\ UNCHANGED <<evars, svars, xvars>>

\* variant of ResultTimeout: the TimeoutError leaves the for loop over the
\* futures, the rest of the group is not awaited
ResultTimeoutAborts ==
    /\ pc = "wait"
    /\ ~Finished(Awaited)
    /\ waited = Timeout
    /\ timeoutCandidates' = Append(timeoutCandidates, Awaited)
    /\ errors' = Append(errors, [item |-> Awaited, fn |-> "bioData", exc |-> "TimeoutError"])
    /\ idx' = idx
    /\ waited' = 0
    /\ pc' = "shutdown"
    /\ UNCHANGED <<batch, wstate, elapsed, dur, fate, link, bios,
                   pstate, prompts, files, c1, c2>>
    /\ UNCHANGED <<evars, svars, xvars>>

\* variant of ResultTimeout: the list is rebound to the one timed-out item
ResultTimeoutReplaces ==
    /\ pc = "wait"
    /\ ~Finished(Awaited)
    /\ waited = Timeout
    /\ timeoutCandidates' = <<Awaited>>
    /\ errors' = Append(errors, [item |-> Awaited, fn |-> "bioData", exc |-> "TimeoutError"])
    /\ Advance
    /\ UNCHANGED <<batch, wstate, elapsed, dur, fate, link, bios,
                   pstate, prompts, files, c1, c2>>
    /\ UNCHANGED <<evars, svars, xvars>>

\* future.result(timeout) raises concurrent.futures.TimeoutError
ResultTimeout ==
    /\ pc = "wait"
    /\ ~Finished(Awaited)
    /\ waited = Timeout
    /\ timeoutCandidates' = Append(timeoutCandidates, Awaited)
    /\ errors' = Append(errors, [item |-> Awaited, fn |-> "bioData", exc |-> "TimeoutError"])
    /\ Advance
    /\ UNCHANGED <<batch, wstate, elapsed, dur, fate, link, bios,
                   pstate, prompts, files, c1, c2>>
    /\ UNCHANGED <<evars, svars, xvars>>

\* future.result(timeout) re-raises the worker's exception
ResultRaise ==
    /\ pc = "wait"
    /\ wstate[Awaited] = "raised"
    /\ errors' = Append(errors, [item |-> Awaited, fn |-> "bioData", exc |-> "Exception"])
    /\ Advance
    /\ UNCHANGED <<batch, wstate, elapsed, dur, fate, link, bios,
                   timeoutCandidates, pstate, prompts, files, c1, c2>>
    /\ UNCHANGED <<evars, svars, xvars>>

\* exit of "with ThreadPoolExecutor() as executor": shutdown(wait=True)
\* returns once every worker of the group has finished
Shutdown ==
    /\ pc = "shutdown"
    /\ \A i \in Range(Group) : Finished(i)
    /\ IF batch < Len(Groups)
       THEN /\ batch' = batch + 1
            /\ pc' = "submit"
       ELSE /\ batch' = batch
            /\ pc' = "prompt"
    /\ idx' = 1
    /\ UNCHANGED <<waited, wstate, elapsed, dur, fate, link, bios,
                   timeoutCandidates, pstate, prompts, files, c1, c2, errors>>
    /\ UNCHANGED <<evars, svars, xvars>>

\* the coordinating thread is blocked in future.result or in shutdown
Blocked ==
    \/ pc = "wait" /\ ~Finished(Awaited) /\ waited < Timeout
    \/ pc = "shutdown" /\ \E i \in Range(Group) : ~Finished(i)

\* one unit of time passes
Tick ==
    /\ Blocked
    /\ ~CanStart
    /\ \A i \in Cands : ~CanFinish(i)
    /\ \/ pc = "wait"
       \/ \E i \in Running : fate[i] # "hangs"
    /\ elapsed' = [i \in Cands |->
                     IF i \in Running /\ fate[i] # "hangs"
                     THEN elapsed[i] + 1 ELSE elapsed[i]]
    /\ waited' = IF pc = "wait" THEN waited + 1 ELSE waited
    /\ UNCHANGED <<pc, batch, idx, wstate, dur, fate, link, bios,
                   timeoutCandidates, pstate, prompts, files, c1, c2, errors>>
    /\ UNCHANGED <<evars, svars, xvars>>

\* ------------------------------------------------- prompt stage of retrieve
\* executor.submit(chatPrompt, info) for every info of bios
SubmitPrompts ==
    /\ pc = "prompt"
    /\ pstate' = [i \in Cands |-> IF i \in Range(bios) THEN "queued" ELSE pstate[i]]
    /\ pc' = "collect"
    /\ UNCHANGED <<batch, idx, waited, wstate, elapsed, dur, fate, link, bios,
                   timeoutCandidates, prompts, files, c1, c2, errors>>
    /\ UNCHANGED <<evars, svars, xvars>>

\* chatPrompt returns: info["Prompt"] is replaced by the rendered prompt
ChatPromptReturn(i) ==
    /\ pstate[i] = "queued"
    /\ link' = [link EXCEPT ![i].Prompt = "chat"]
    /\ pstate' = [pstate EXCEPT ![i] = "returned"]
    /\ UNCHANGED <<pc, batch, idx, waited, wstate, elapsed, dur, fate, bios,
                   timeoutCandidates, prompts, files, c1, c2, errors>>
    /\ UNCHANGED <<evars, svars, xvars>>

\* chatPrompt raises (info['Full'] is not a string)
ChatPromptRaise(i) ==
    /\ pstate[i] = "queued"
    /\ pstate' = [pstate EXCEPT ![i] = "raised"]
    /\ UNCHANGED <<pc, batch, idx, waited, wstate, elapsed, dur, fate, link, bios,
                   timeoutCandidates, prompts, files, c1, c2, errors>>
    /\ UNCHANGED <<evars, svars, xvars>>

\* as_completed yields a future that returned
CollectPrompt(i) ==
    /\ pc = "collect"
    /\ pstate[i] = "returned"
    /\ prompts' = Append(prompts, i)
    /\ pstate' = [pstate EXCEPT ![i] = "collected"]
    /\ UNCHANGED <<pc, batch, idx, waited, wstate, elapsed, dur, fate, link, bios,
                   timeoutCandidates, files, c1, c2, errors>>
    /\ UNCHANGED <<evars, svars, xvars>>

\* as_completed yields a future that raised
CollectPromptError(i) ==
    /\ pc = "collect"
    /\ pstate[i] = "raised"
    /\ errors' = Append(errors, [item |-> i, fn |-> "chatPrompt", exc |-> "Exception"])
    /\ pstate' = [pstate EXCEPT ![i] = "logged"]
    /\ UNCHANGED <<pc, batch, idx, waited, wstate, elapsed, dur, fate, link, bios,
                   timeoutCandidates, prompts, files, c1, c2>>
    /\ UNCHANGED <<evars, svars, xvars>>

\* rows of c2_scrapingTimeouts.csv: the timeout candidates whose dictionary
\* still has exactly the 8 keys of a search row
TimeoutRows(tc) == SelectSeq(tc, LAMBDA i : NumKeys(i) = KeysOfSearchRow)

\* variant of RetrieveCSV: the files are written while chatPrompt futures are
\* still pending
RetrieveCSVEarly ==
    /\ pc = "collect"
    /\ c2' = TimeoutRows(timeoutCandidates)
    /\ c1' = prompts
    /\ files' = files \cup {"c1_retrievals.csv", "c2_scrapingTimeouts.csv"}
    /\ pc' = "done"
    /\ UNCHANGED <<batch, idx, waited, wstate, elapsed, dur, fate, link, bios,
                   timeoutCandidates, pstate, prompts, errors>>
    /\ UNCHANGED <<evars, svars, xvars>>

\* c_retrieval.retrieveCSV, called when as_completed is exhausted
RetrieveCSV ==
    /\ pc = "collect"
    /\ \A i \in Range(bios) : pstate[i] \in {"collected", "logged"}
    /\ c2' = TimeoutRows(timeoutCandidates)
    /\ c1' = prompts
    /\ files' = files \cup {"c1_retrievals.csv", "c2_scrapingTimeouts.csv"}
    /\ pc' = "done"
    /\ UNCHANGED <<batch, idx, waited, wstate, elapsed, dur, fate, link, bios,
                   timeoutCandidates, pstate, prompts, errors>>
    /\ UNCHANGED <<evars, svars, xvars>>

NextRetrieve ==
    \/ SubmitBatch
    \/ WorkerStart
    \/ \E i \in Cands : BioDataReturn(i)
    \/ \E i \in Cands : BioDataRaise(i)
    \/ ResultReturn
    \/ ResultTimeout
    \/ ResultRaise
    \/ Shutdown
    \/ Tick
    \/ SubmitPrompts
    \/ \E i \in Cands : ChatPromptReturn(i)
    \/ \E i \in Cands : ChatPromptRaise(i)
    \/ \E i \in Cands : CollectPrompt(i)
    \/ \E i \in Cands : CollectPromptError(i)
    \/ RetrieveCSV

Spec == InitRetrieve /\ [][NextRetrieve]_vars

FairSpec == InitRetrieve /\ [][NextRetrieve]_vars /\ WF_vars(NextRetrieve)

\* ----------------------------------------------------------- extract stage
\* A response text is a sequence of tokens: "{" "}" "[" "]", a member
\* "major" / "conf" / "candid" (a "key": value pair of that key), "nl" (a
\* newline character inside the text) and "junk" (any other text).
RespFull == <<"{", "major", "conf", "}">>

RespPartial == <<"{", "major", "}">>

RespNewlines == <<"{", "nl", "major", "nl", "}">>

RespIdentity == <<"{", "candid", "major", "}">>

RespEmptyObject == <<"{", "}">>

RespEmptyArray == <<"[", "]">>

RespProse == <<"junk">>

RespTruncated == <<"{", "major">>

Responses == {RespFull, RespPartial, RespNewlines, RespIdentity,
              RespEmptyObject, RespEmptyArray, RespProse, RespTruncated}

MemberTokens == {"major", "conf", "candid"}

\* output["Response"].replace("\n", "")
StripNewlines(t) == SelectSeq(t, LAMBDA c : c # "nl")

\* json.loads: an object of members, an empty array, or a decode error
JsonLoads(t) ==
    IF /\ Len(t) >= 2
       /\ t[1] = "{"
       /\ t[Len(t)] = "}"
       /\ \A k \in 2..(Len(t) - 1) : t[k] \in MemberTokens
    THEN [ok |-> TRUE, kind |-> "object", keys |-> {t[k] : k \in 2..(Len(t) - 1)}]
    ELSE IF t = <<"[", "]">>
         THEN [ok |-> TRUE, kind |-> "array", keys |-> {}]
         ELSE [ok |-> FALSE, kind |-> "error", keys |-> {}]

\* variant of parse: a decoded object that lacks an expected key is treated
\* as a failure
parseStrict(p) ==
    LET d == JsonLoads(StripNewlines(prec[p].Response))
    IN  IF ~d.ok \/ ~({"major", "conf"} \subseteq d.keys)
        THEN [tag |-> "fail", output |-> p]
        ELSE [tag |-> "data",
              FullName |-> p,
              Candid |-> [of |-> p,
                          from |-> IF "candid" \in d.keys THEN "response" ELSE "record"],
              keys |-> d.keys]

\* d_extraction.parse: the dictionary data, or the list [-1, output]
parse(p) ==
    LET d == JsonLoads(StripNewlines(prec[p].Response))
    IN  IF ~d.ok
        THEN [tag |-> "fail", output |-> p]
        ELSE [tag |-> "data",
              FullName |-> p,
              Candid |-> [of |-> p,
                          from |-> IF "candid" \in d.keys THEN "response" ELSE "record"],
              keys |-> d.keys]

InitExtract ==
    /\ UtilitiesIdle
    /\ RetrieveIdle
    /\ SearchIdle
    /\ PipelineIdle
    /\ FunctionsIdle
    /\ errors = <<>>
    /\ files = {}
    /\ epc = "submit"
    /\ fstate = [p \in Prompts |-> "new"]
    /\ attempts = [p \in Prompts |-> 0]
    /\ prec = [p \in Prompts |-> [Response |-> NoResponse]]
    /\ outputs = <<>>
    /\ promptErrors = <<>>
    /\ xstate = [p \in Prompts |-> "new"]
    /\ parsed = [p \in Prompts |-> NoValue]
    /\ rawResults = <<>>
    /\ parseErrors = <<>>
    /\ d1 = <<>>
    /\ d2 = <<>>
    /\ d3 = <<>>

\* executor.submit(chatFeed, prompt) for every prompt
SubmitFeeds ==
    /\ epc = "submit"
    /\ fstate' = [p \in Prompts |-> "queued"]
    /\ epc' = "feed"
    /\ UNCHANGED <<attempts, prec, outputs, promptErrors, xstate, parsed,
                   rawResults, parseErrors, d1, d2, d3, errors, files>>
    /\ UNCHANGED <<rvarsNoFiles, svars, xvars>>

\* variant of ChatFeedAttemptRaises: the stop condition is tested before the
\* attempt is counted, one more attempt is made
ChatFeedAttemptRaisesOneMore(p) ==
    /\ fstate[p] = "queued"
    /\ attempts[p] <= MaxAttempts
    /\ attempts' = [attempts EXCEPT ![p] = @ + 1]
    /\ fstate' = [fstate EXCEPT ![p] =
                    IF attempts[p] = MaxAttempts THEN "raised" ELSE "queued"]
    /\ UNCHANGED <<epc, prec, outputs, promptErrors, xstate, parsed,
                   rawResults, parseErrors, d1, d2, d3, errors, files>>
    /\ UNCHANGED <<rvarsNoFiles, svars, xvars>>

\* one attempt of the wrapped call raises: tenacity retries it, or re-raises
\* after the last attempt
ChatFeedAttemptRaises(p) ==
    /\ fstate[p] = "queued"
    /\ attempts[p] < MaxAttempts
    /\ attempts' = [attempts EXCEPT ![p] = @ + 1]
    /\ fstate' = [fstate EXCEPT ![p] =
                    IF attempts[p] + 1 = MaxAttempts THEN "raised" ELSE "queued"]
    /\ UNCHANGED <<epc, prec, outputs, promptErrors, xstate, parsed,
                   rawResults, parseErrors, d1, d2, d3, errors, files>>
    /\ UNCHANGED <<rvarsNoFiles, svars, xvars>>

\* one attempt returns: output = p; output["Response"] = content.  The
\* attempt number is part of the retry state of the call and is gone with it.
ChatFeedReturns(p, resp) ==
    /\ fstate[p] = "queued"
    /\ attempts[p] < MaxAttempts
    /\ attempts' = [attempts EXCEPT ![p] = 0]
    /\ prec' = [prec EXCEPT ![p].Response = resp]
    /\ fstate' = [fstate EXCEPT ![p] = "returned"]
    /\ UNCHANGED <<epc, outputs, promptErrors, xstate, parsed,
                   rawResults, parseErrors, d1, d2, d3, errors, files>>
    /\ UNCHANGED <<rvarsNoFiles, svars, xvars>>

\* as_completed yields a future that returned
CollectFeed(p) ==
    /\ epc = "feed"
    /\ fstate[p] = "returned"
    /\ outputs' = Append(outputs, p)
    /\ fstate' = [fstate EXCEPT ![p] = "collected"]
    /\ UNCHANGED <<epc, attempts, prec, promptErrors, xstate, parsed,
                   rawResults, parseErrors, d1, d2, d3, errors, files>>
    /\ UNCHANGED <<rvarsNoFiles, svars, xvars>>

\* variant of CollectFeedError: the exception is only logged
CollectFeedErrorLogsOnly(p) ==
    /\ epc = "feed"
    /\ fstate[p] = "raised"
    /\ errors' = Append(errors, [item |-> p, fn |-> "chatFeed", exc |-> "RetryError"])
    /\ fstate' = [fstate EXCEPT ![p] = "logged"]
    /\ UNCHANGED <<epc, attempts, prec, outputs, promptErrors, xstate, parsed,
                   rawResults, parseErrors, d1, d2, d3, files>>
    /\ UNCHANGED <<rvarsNoFiles, svars, xvars>>

\* as_completed yields a future that raised
CollectFeedError(p) ==
    /\ epc = "feed"
    /\ fstate[p] = "raised"
    /\ promptErrors' = Append(promptErrors, p)
    /\ errors' = Append(errors, [item |-> p, fn |-> "chatFeed", exc |-> "RetryError"])
    /\ fstate' = [fstate EXCEPT ![p] = "logged"]
    /\ UNCHANGED <<epc, attempts, prec, outputs, xstate, parsed,
                   rawResults, parseErrors, d1, d2, d3, files>>
    /\ UNCHANGED <<rvarsNoFiles, svars, xvars>>

\* variant of ExtractCSVBegin: d2_promptErrors.csv is written only when there
\* is a prompt error
ExtractCSVBeginSkipsEmpty ==
    /\ epc = "feed"
    /\ \A p \in Prompts : fstate[p] \in {"collected", "logged"}
    /\ d2' = promptErrors
    /\ files' = IF promptErrors = <<>> THEN files
                ELSE files \cup {"d2_promptErrors.csv"}
    /\ xstate' = [p \in Prompts |-> IF p \in Range(outputs) THEN "queued" ELSE xstate[p]]
    /\ epc' = "parse"
    /\ UNCHANGED <<fstate, attempts, prec, outputs, promptErrors, parsed,
                   rawResults, parseErrors, d1, d3, errors>>
    /\ UNCHANGED <<rvarsNoFiles, svars, xvars>>

\* extractCSV up to the parse fan-out: d2_promptErrors.csv is written and
\* parse is submitted for every output
ExtractCSVBegin ==
    /\ epc = "feed"
    /\ \A p \in Prompts : fstate[p] \in {"collected", "logged"}
    /\ d2' = promptErrors
    /\ files' = files \cup {"d2_promptErrors.csv"}
    /\ xstate' = [p \in Prompts |-> IF p \in Range(outputs) THEN "queued" ELSE xstate[p]]
    /\ epc' = "parse"
    /\ UNCHANGED <<fstate, attempts, prec, outputs, promptErrors, parsed,
                   rawResults, parseErrors, d1, d3, errors>>
    /\ UNCHANGED <<rvarsNoFiles, svars, xvars>>

\* a worker runs parse(output)
ParseRun(p) ==
    /\ xstate[p] = "queued"
    /\ parsed' = [parsed EXCEPT ![p] = parse(p)]
    /\ xstate' = [xstate EXCEPT ![p] = "done"]
    /\ UNCHANGED <<epc, fstate, attempts, prec, outputs, promptErrors,
                   rawResults, parseErrors, d1, d2, d3, errors, files>>
    /\ UNCHANGED <<rvarsNoFiles, svars, xvars>>

\* body of the as_completed loop of extractCSV.  "if data != None" holds for
\* the dictionary and for the list [-1, output]; indexing the list with
\* "Full Name" raises TypeError, which the except branch logs.  The elif
\* branch is reached only for data = None, where data[0] raises as well.
CollectParse(p) ==
    /\ epc = "parse"
    /\ xstate[p] = "done"
    /\ IF parsed[p] # NoValue
       THEN IF parsed[p].tag = "data"
            THEN /\ rawResults' = Append(rawResults, parsed[p])
                 /\ UNCHANGED errors
            ELSE /\ errors' = Append(errors, [item |-> p, fn |-> "parse", exc |-> "TypeError"])
                 /\ UNCHANGED rawResults
       ELSE /\ errors' = Append(errors, [item |-> p, fn |-> "parse", exc |-> "TypeError"])
            /\ UNCHANGED rawResults
    /\ UNCHANGED parseErrors
    /\ xstate' = [xstate EXCEPT ![p] = "collected"]
    /\ UNCHANGED <<epc, fstate, attempts, prec, outputs, promptErrors, parsed,
                   d1, d2, d3, files>>
    /\ UNCHANGED <<rvarsNoFiles, svars, xvars>>

\* rest of extractCSV (variant "normal"): d1_extractions.csv and
\* d3_parseErrors.csv are written
ExtractCSVEnd ==
    /\ epc = "parse"
    /\ \A p \in Range(outputs) : xstate[p] = "collected"
    /\ d1' = rawResults
    /\ d3' = parseErrors
    /\ files' = files \cup {"d1_extractions.csv", "d3_parseErrors.csv"}
    /\ epc' = "done"
    /\ UNCHANGED <<fstate, attempts, prec, outputs, promptErrors, xstate, parsed,
                   rawResults, parseErrors, d2, errors>>
    /\ UNCHANGED <<rvarsNoFiles, svars, xvars>>

NextExtract ==
    \/ SubmitFeeds
    \/ \E p \in Prompts : ChatFeedAttemptRaises(p)
    \/ \E p \in Prompts, resp \in Responses : ChatFeedReturns(p, resp)
    \/ \E p \in Prompts : CollectFeed(p)
    \/ \E p \in Prompts : CollectFeedError(p)
    \/ ExtractCSVBegin
    \/ \E p \in Prompts : ParseRun(p)
    \/ \E p \in Prompts : CollectParse(p)
    \/ ExtractCSVEnd

SpecExtract == InitExtract /\ [][NextExtract]_vars

\* ------------------------------------------------------------ search stage
InitSearch ==
    /\ UtilitiesIdle
    /\ RetrieveIdle
    /\ ExtractIdle
    /\ PipelineIdle
    /\ FunctionsIdle
    /\ errors = <<>>
    /\ files = {}
    /\ spc = "start"
    /\ sr \in 0..5
    /\ si = 1
    /\ gattempt = 1
    /\ searchUrls = <<>>
    /\ b1 = <<>>

\* search: the parameter assertions, then randomRead / orderRead
SearchStart ==
    /\ spc = "start"
    /\ spc' = IF 1 <= sr /\ sr <= 4
              THEN (IF NumReps = 0 THEN "csv" ELSE "loop")
              ELSE "raised"
    /\ UNCHANGED <<sr, si, gattempt, searchUrls, b1, errors, files>>
    /\ UNCHANGED <<rvarsNoFiles, evars, xvars>>

\* one attempt of googleSearch raises: tenacity sleeps and retries, or after
\* the last attempt raises RetryError, which search does not catch
GoogleSearchRaises ==
    /\ spc = "loop"
    /\ IF gattempt < MaxAttempts
       THEN /\ gattempt' = gattempt + 1
            /\ spc' = spc
       ELSE /\ gattempt' = gattempt
            /\ spc' = "raised"
    /\ UNCHANGED <<sr, si, searchUrls, b1, errors, files>>
    /\ UNCHANGED <<rvarsNoFiles, evars, xvars>>

\* one attempt of googleSearch returns rep with rep["Sources"] set: the links
\* of the items, or [""] when the result has no items
GoogleSearchReturns(sources) ==
    /\ spc = "loop"
    /\ searchUrls' = Append(searchUrls, [rep |-> si, Sources |-> sources])
    /\ gattempt' = 1
    /\ IF si < NumReps
       THEN /\ si' = si + 1
            /\ spc' = spc
       ELSE /\ si' = si
            /\ spc' = "csv"
    /\ UNCHANGED <<sr, b1, errors, files>>
    /\ UNCHANGED <<rvarsNoFiles, evars, xvars>>

\* b_search.searchCSV
SearchCSV ==
    /\ spc = "csv"
    /\ b1' = searchUrls
    /\ files' = files \cup {"b1_searches.csv"}
    /\ spc' = "done"
    /\ UNCHANGED <<sr, si, gattempt, searchUrls, errors>>
    /\ UNCHANGED <<rvarsNoFiles, evars, xvars>>

NextSearch ==
    \/ SearchStart
    \/ GoogleSearchRaises
    \/ \E sources \in {"links", "blank"} : GoogleSearchReturns(sources)
    \/ SearchCSV

SpecSearch == InitSearch /\ [][NextSearch]_vars

\* ------------------------------------ direct calls of the retried functions
\* chatFeed(p) has been called for every prompt and googleSearch(rep, r) has
\* been called with an arbitrary r, outside of extract and search
InitCall ==
    /\ UtilitiesIdle
    /\ RetrieveIdle
    /\ PipelineIdle
    /\ FunctionsIdle
    /\ errors = <<>>
    /\ files = {}
    /\ epc = "idle"
    /\ fstate = [p \in Prompts |-> "queued"]
    /\ attempts = [p \in Prompts |-> 0]
    /\ prec = [p \in Prompts |-> [Response |-> NoResponse]]
    /\ outputs = <<>>
    /\ promptErrors = <<>>
    /\ xstate = [p \in Prompts |-> "new"]
    /\ parsed = [p \in Prompts |-> NoValue]
    /\ rawResults = <<>>
    /\ parseErrors = <<>>
    /\ d1 = <<>>
    /\ d2 = <<>>
    /\ d3 = <<>>
    /\ spc = "call"
    /\ sr \in 0..5
    /\ si = 1
    /\ gattempt = 1
    /\ searchUrls = <<>>
    /\ b1 = <<>>

\* one attempt of googleSearch raises: "assert 1 <= r <= 4" fails inside the
\* decorated function, or the API call raises.  tenacity sleeps and retries,
\* or raises RetryError after the last attempt.
GoogleCallRaises ==
    /\ spc = "call"
    /\ IF gattempt < MaxAttempts
       THEN /\ gattempt' = gattempt + 1
            /\ spc' = spc
       ELSE /\ gattempt' = gattempt
            /\ spc' = "raised"
    /\ UNCHANGED <<sr, si, searchUrls, b1, errors, files>>
    /\ UNCHANGED <<rvarsNoFiles, evars, xvars>>

\* one attempt of googleSearch passes the assertion and returns rep
GoogleCallReturns(sources) ==
    /\ spc = "call"
    /\ 1 <= sr /\ sr <= 4
    /\ searchUrls' = Append(searchUrls, [rep |-> si, Sources |-> sources])
    /\ spc' = "returned"
    /\ UNCHANGED <<sr, si, gattempt, b1, errors, files>>
    /\ UNCHANGED <<rvarsNoFiles, evars, xvars>>

NextCall ==
    \/ \E p \in Prompts : ChatFeedAttemptRaises(p)
    \/ \E p \in Prompts, resp \in Responses : ChatFeedReturns(p, resp)
    \/ GoogleCallRaises
    \/ \E sources \in {"links", "blank"} : GoogleCallReturns(sources)

SpecCall == InitCall /\ [][NextCall]_vars

\* ------------------------------------------------- pipeline (a_pipeline.py)
outputFiles ==
    {"b1_searches.csv", "c1_retrievals.csv", "c2_scrapingTimeouts.csv",
     "d1_extractions.csv", "d2_promptErrors.csv", "d3_parseErrors.csv",
     "d4_reruns.csv", "errors.txt"}

\* "assert n > 0" and "assert 1 <= r <= 4"
n_ok(n) == n > 0

r_ok(r) == 1 <= r /\ r <= 4

\* gatherData(n, r, read) or gatherRow(r, rows) is called with arbitrary
\* arguments in a directory that may hold files of an earlier run
InitPipeline ==
    /\ UtilitiesIdle
    /\ RetrieveIdle
    /\ ExtractIdle
    /\ SearchIdle
    /\ FunctionsIdle
    /\ errors = <<>>
    /\ files \in {{}, {"b1_searches.csv", "errors.txt"},
                  {"d1_extractions.csv", "notes.txt"}, outputFiles}
    /\ ppc = "start"
    /\ pfn \in {"gatherData", "gatherRow"}
    /\ pn \in -1..2
    /\ pr \in 0..5
    /\ pread \in {"random", "order", "other"}

\* the assertions at the head of gatherData and of gatherRow
ArgumentsAccepted ==
    IF pfn = "gatherData"
    THEN n_ok(pn) /\ r_ok(pr) /\ pread \in {"random", "order"}
    ELSE r_ok(pr)

\* variant of GatherValidate: only the range of r is asserted
GatherValidateRangeOnly ==
    /\ ppc = "start"
    /\ ppc' = IF r_ok(pr) THEN "delete" ELSE "rejected"
    /\ UNCHANGED <<pfn, pn, pr, pread, errors, files>>
    /\ UNCHANGED <<rvarsNoFiles, evars, svars, gvars, cvars, bvars, uvars>>

\* "verifies parameters": a failing assert raises AssertionError out of the
\* function
GatherValidate ==
    /\ ppc = "start"
    /\ ppc' = IF ArgumentsAccepted THEN "delete" ELSE "rejected"
    /\ UNCHANGED <<pfn, pn, pr, pread, errors, files>>
    /\ UNCHANGED <<rvarsNoFiles, evars, svars, gvars, cvars, bvars, uvars>>

\* deleteOutput(outputFiles): removes each listed file that exists
deleteOutput ==
    /\ ppc = "delete"
    /\ files' = files \ outputFiles
    /\ errors' = <<>>
    /\ ppc' = "search"
    /\ UNCHANGED <<pfn, pn, pr, pread>>
    /\ UNCHANGED <<rvarsNoFiles, evars, svars, gvars, cvars, bvars, uvars>>

\* search(n, r, read) / searchRow(r, rows) is entered; its steps are the
\* actions of the search stage
PipelineSearch ==
    /\ ppc = "search"
    /\ spc = "idle"
    /\ spc' = "start"
    /\ sr' = pr
    /\ si' = 1
    /\ gattempt' = 1
    /\ searchUrls' = <<>>
    /\ ppc' = "searching"
    /\ UNCHANGED <<pfn, pn, pr, pread, b1, errors, files>>
    /\ UNCHANGED <<rvarsNoFiles, evars, gvars, cvars, bvars, uvars>>

\* an exception of the search stage is not caught by the pipeline
PipelineSearchRaised ==
    /\ ppc = "searching"
    /\ spc = "raised"
    /\ ppc' = "failed"
    /\ UNCHANGED <<pfn, pn, pr, pread, errors, files>>
    /\ UNCHANGED <<rvarsNoFiles, evars, svars, gvars, cvars, bvars, uvars>>

\* retrieve(): as one step, its files and what it may log (its steps are
\* the actions of Spec)
PipelineRetrieve ==
    /\ ppc = "searching"
    /\ spc = "done"
    /\ files' = files \cup {"c1_retrievals.csv", "c2_scrapingTimeouts.csv"}
    /\ \E logged \in {<<>>, <<[kind |-> "exception", item |-> 1]>>} :
           errors' = errors \o logged
    /\ ppc' = "retrieved"
    /\ UNCHANGED <<pfn, pn, pr, pread>>
    /\ UNCHANGED <<rvarsNoFiles, evars, svars, gvars, cvars, bvars, uvars>>

\* extract(): as one step, its files (its steps are the actions of
\* SpecExtract)
PipelineExtract ==
    /\ ppc = "retrieved"
    /\ files' = files \cup {"d1_extractions.csv", "d2_promptErrors.csv",
                            "d3_parseErrors.csv"}
    /\ ppc' = "done"
    /\ UNCHANGED <<pfn, pn, pr, pread, errors>>
    /\ UNCHANGED <<rvarsNoFiles, evars, svars, gvars, cvars, bvars, uvars>>

NextPipeline ==
    \/ GatherValidate
    \/ deleteOutput
    \/ PipelineSearch
    \/ SearchStart
    \/ GoogleSearchRaises
    \/ \E sources \in {"links", "blank"} : GoogleSearchReturns(sources)
    \/ SearchCSV
    \/ PipelineSearchRaised
    \/ PipelineRetrieve
    \/ PipelineExtract

SpecPipeline == InitPipeline /\ [][NextPipeline]_vars

\* ------------------------------------------------ chatPrompt (c_retrieval.py)
\* A name is a sequence of characters: the letters "a" "b" "A" "B" and " ".
\* Scraped text and prompts are sequences of words.
MaxContext == 2

MaxCalls == 2

Upper(c) == IF c = "a" THEN "A" ELSE IF c = "b" THEN "B" ELSE c

Lower(c) == IF c = "A" THEN "a" ELSE IF c = "B" THEN "b" ELSE c

\* str.title(): the first letter of every word in upper case, the other
\* letters in lower case
Title(name) ==
    [k \in DOMAIN name |->
        IF k = 1 \/ name[k - 1] = " " THEN Upper(name[k]) ELSE Lower(name[k])]

Names == {<<"a", "b">>, <<"A", "B">>, <<"a", " ", "b">>}

Contexts == UNION {[1..n -> {"born", "elected"}] : n \in 0..MaxContext}

\* the f-string p, then f"{p} {info['Prompt']}" stored under "Prompt" of the
\* very dictionary that was passed in
chatPrompt(info) ==
    LET p == <<"Extract", Title(info.Full), "from", info.State, "text:">>
             \o info.Prompt
             \o <<"confidence", Title(info.Full), info.MinYear, info.State,
                  "json">>
    IN  [info EXCEPT !.Prompt = p \o info.Prompt]

InitPrompt ==
    /\ UtilitiesIdle
    /\ RetrieveIdle
    /\ ExtractIdle
    /\ SearchIdle
    /\ PipelineIdle
    /\ GrabberIdle
    /\ BioIdle
    /\ errors = <<>>
    /\ files = {}
    /\ cinfo \in [Full : Names, State : {"pa", "ny"}, MinYear : {"2000", "2010"},
                  Prompt : Contexts]
    /\ cresults = <<>>

\* chatPrompt(info): info is updated in place and returned
ChatPromptOnRecord ==
    /\ Len(cresults) < MaxCalls
    /\ cinfo' = chatPrompt(cinfo)
    /\ cresults' = Append(cresults, chatPrompt(cinfo).Prompt)
    /\ UNCHANGED <<rvars, evars, svars, errors, pvars, gvars, bvars, uvars>>

\* chatPrompt called with another dictionary that holds the same fields
ChatPromptOnCopy ==
    /\ Len(cresults) < MaxCalls
    /\ cresults' = Append(cresults, chatPrompt(cinfo).Prompt)
    /\ UNCHANGED cinfo
    /\ UNCHANGED <<rvars, evars, svars, errors, pvars, gvars, bvars, uvars>>

NextPrompt ==
    \/ ChatPromptOnRecord
    \/ ChatPromptOnCopy

SpecPrompt == InitPrompt /\ [][NextPrompt]_vars

\* --------------------------------------------------- grabber (c_retrieval.py)
\* A text is a sequence of characters grouped into atoms: "last", "first",
\* "middle" (the letters of a candidate's name), "acc" (the letters of
\* "accessibility"), "w" (other letters), "sp" (one space), "tab" (one
\* white-space character that is neither a space nor a newline, such as a
\* tab or a no-break space) and "nl" (one newline).  Adjacent letter atoms
\* read as one unbroken string.
MaxTextLen == 5

\* the window length of grabber (400 in the source)
WindowWords == 2

WhiteSpace == {"sp", "tab", "nl"}

TextAtoms == {"last", "w", "acc", "sp", "tab", "nl"}

Texts == UNION {[1..n -> TextAtoms] : n \in 0..MaxTextLen}

\* index of the first occurrence of atom x in text t, 0 when there is none
Find(t, x) ==
    IF x \in Range(t)
    THEN CHOOSE k \in DOMAIN t : t[k] = x /\ \A j \in 1..(k - 1) : t[j] # x
    ELSE 0

\* information.partition(phrase): excerpt[1] + excerpt[2]
PartitionFrom(t, phrase) ==
    IF Find(t, phrase) = 0 THEN <<>> ELSE SubSeq(t, Find(t, phrase), Len(t))

\* length of the run of white space that starts text t
SpaceRun(t) ==
    CHOOSE n \in 0..Len(t) :
        /\ \A k \in 1..n : t[k] \in WhiteSpace
        /\ n = Len(t) \/ t[n + 1] \notin WhiteSpace

\* re.sub(r"\s*\n\s*", " ", text): every run of white space that holds a
\* newline becomes one space, other runs stay as they are
RECURSIVE SubNewlines(_)
SubNewlines(t) ==
    IF t = <<>>
    THEN <<>>
    ELSE IF SpaceRun(t) = 0
         THEN <<t[1]>> \o SubNewlines(Tail(t))
         ELSE (IF "nl" \in Range(SubSeq(t, 1, SpaceRun(t)))
               THEN <<"sp">>
               ELSE SubSeq(t, 1, SpaceRun(t)))
              \o SubNewlines(SubSeq(t, SpaceRun(t) + 1, Len(t)))

\* text.split(" "): the pieces between single spaces, empty pieces included
RECURSIVE SplitSpace(_)
SplitSpace(t) ==
    IF Find(t, "sp") = 0
    THEN <<t>>
    ELSE <<SubSeq(t, 1, Find(t, "sp") - 1)>>
         \o SplitSpace(SubSeq(t, Find(t, "sp") + 1, Len(t)))

\* " ".join(words)
RECURSIVE JoinSpace(_)
JoinSpace(ws) ==
    IF ws = <<>>
    THEN <<>>
    ELSE IF Len(ws) = 1
         THEN ws[1]
         ELSE ws[1] \o <<"sp">> \o JoinSpace(Tail(ws))

grabber(info, phrase) ==
    LET words == SplitSpace(SubNewlines(PartitionFrom(info, phrase)))
        numWords == IF <<"acc">> \in Range(Slice(words, 0, WindowWords))
                    THEN Find(words, <<"acc">>)
                    ELSE WindowWords
    IN  JoinSpace(Slice(words, 0, numWords))

InitGrabber ==
    /\ UtilitiesIdle
    /\ RetrieveIdle
    /\ ExtractIdle
    /\ SearchIdle
    /\ PipelineIdle
    /\ PromptIdle
    /\ BioIdle
    /\ errors = <<>>
    /\ files = {}
    /\ gtext \in Texts
    /\ gphrase = "last"
    /\ gsummary = Unbound

\* summary = grabber(information, phrase)
GrabberCall ==
    /\ gsummary = Unbound
    /\ gsummary' = grabber(gtext, gphrase)
    /\ UNCHANGED <<gtext, gphrase>>
    /\ UNCHANGED <<rvars, evars, svars, errors, pvars, cvars, bvars, uvars>>

NextGrabber == GrabberCall

SpecGrabber == InitGrabber /\ [][NextGrabber]_vars

\* --------------------------------------------------- bioData (c_retrieval.py)
NumUrls == 2

\* texts of pages, already in lower case
Pages ==
    {<<"w", "sp", "last", "sp", "w", "sp", "w">>,
     <<"first", "sp", "w">>,
     <<"w", "sp", "first", "sp", "last">>,
     <<"middle", "sp", "w">>,
     <<"w", "sp", "w">>}

\* a source URL: the marker "nan", or the address of a web page or of a PDF;
\* ok tells whether fetching and reading it succeeds, page is its text
Urls ==
    {[kind |-> "nan", ok |-> FALSE, page |-> <<>>]}
    \cup {[kind |-> k, ok |-> FALSE, page |-> <<>>] : k \in {"html", "pdf"}}
    \cup {[kind |-> k, ok |-> TRUE, page |-> p] : k \in {"html", "pdf"}, p \in Pages}

InitBio ==
    /\ UtilitiesIdle
    /\ RetrieveIdle
    /\ ExtractIdle
    /\ SearchIdle
    /\ PipelineIdle
    /\ GrabberIdle
    /\ PromptIdle
    /\ errors = <<>>
    /\ files = {}
    /\ bpc = "loop"
    /\ blink \in [Last : {"nan", "last"}, First : {"nan", "first"},
                  Middle : {"nan", "middle"},
                  Sources : UNION {[1..n -> Urls] : n \in 0..NumUrls},
                  Prompt : {Unbound}]
    /\ burl = 1
    /\ information = Unbound
    /\ summary = Unbound
    /\ summaries = <<>>

\* value of the local "information" after the fetch branch of the loop body:
\* assigned when the page or the PDF was read, left as it was when pdfReader
\* raised (the inner except only prints)
InformationAfterFetch(u) == IF u.ok THEN u.page ELSE information

\* value of the local "summary" after "if link[Last] != nan", after
\* "if link[First] != nan and not summary", after the test of Middle
SummaryAfterLast(u) ==
    IF blink.Last # "nan"
    THEN grabber(InformationAfterFetch(u), blink.Last)
    ELSE summary

SummaryAfterFirst(u) ==
    IF blink.First # "nan" /\ SummaryAfterLast(u) = <<>>
    THEN grabber(InformationAfterFetch(u), blink.First)
    ELSE SummaryAfterLast(u)

SummaryAfterMiddle(u) ==
    IF blink.Middle # "nan" /\ SummaryAfterFirst(u) = <<>>
    THEN grabber(InformationAfterFetch(u), blink.Middle)
    ELSE SummaryAfterFirst(u)

\* the loop body raises: session.get or the parser raises, or a local that
\* was never assigned is read (information by grabber, summary by
\* "not summary" or by summaries.append)
BodyRaises(u) ==
    \/ u.kind = "html" /\ ~u.ok
    \/ blink.Last # "nan" /\ InformationAfterFetch(u) = Unbound
    \/ blink.Last = "nan" /\ summary = Unbound

\* one pass of "for url in link[Sources]": the body, or "except: continue"
BioDataUrl ==
    /\ bpc = "loop"
    /\ burl <= Len(blink.Sources)
    /\ LET u == blink.Sources[burl]
       IN  IF u.kind = "nan"
           THEN UNCHANGED <<information, summary, summaries>>
           ELSE IF BodyRaises(u)
                THEN /\ information' = InformationAfterFetch(u)
                     /\ UNCHANGED <<summary, summaries>>
                ELSE /\ information' = InformationAfterFetch(u)
                     /\ summary' = SummaryAfterMiddle(u)
                     /\ summaries' = Append(summaries, SummaryAfterMiddle(u))
    /\ burl' = burl + 1
    /\ UNCHANGED <<bpc, blink>>
    /\ UNCHANGED <<rvars, evars, svars, errors, pvars, gvars, cvars, uvars>>

\* link["Prompt"] = " ".join(summaries); return link
BioDataJoin ==
    /\ bpc = "loop"
    /\ burl > Len(blink.Sources)
    /\ blink' = [blink EXCEPT !.Prompt = JoinSpace(summaries)]
    /\ bpc' = "done"
    /\ UNCHANGED <<burl, information, summary, summaries>>
    /\ UNCHANGED <<rvars, evars, svars, errors, pvars, gvars, cvars, uvars>>

NextBio ==
    \/ BioDataUrl
    \/ BioDataJoin

SpecBio == InitBio /\ [][NextBio]_vars

\* ------------------------------------------- token helpers (utils.py)
\* A text is a sequence of characters: the letters "a" and "b", "E" (a
\* character of three UTF-8 bytes) and "R" (U+FFFD, the replacement
\* character).  A token is a sequence of bytes.  tiktoken encodes by byte
\* pair merging in rank order and decodes with errors="replace".
MaxChars == 3

MaxBudget == 3

TokChars == {"a", "b", "E"}

TokTexts == UNION {[1..n -> TokChars] : n \in 0..MaxChars}

\* the UTF-8 bytes of a character
Utf8(c) ==
    IF c = "E" THEN <<"e1", "e2", "e3">>
    ELSE IF c = "R" THEN <<"f1", "f2", "f3">>
    ELSE <<c>>

RECURSIVE Utf8Encode(_)
Utf8Encode(text) ==
    IF text = <<>> THEN <<>> ELSE Utf8(Head(text)) \o Utf8Encode(Tail(text))

\* bytes.decode("utf-8", errors="replace"): every complete character, and
\* one U+FFFD for every maximal incomplete or stray part
RECURSIVE Utf8Decode(_)
Utf8Decode(bs) ==
    IF bs = <<>>
    THEN <<>>
    ELSE IF bs[1] \in {"a", "b"}
    THEN <<bs[1]>> \o Utf8Decode(Tail(bs))
    ELSE IF Len(bs) >= 3 /\ SubSeq(bs, 1, 3) = <<"e1", "e2", "e3">>
    THEN <<"E">> \o Utf8Decode(SubSeq(bs, 4, Len(bs)))
    ELSE IF Len(bs) >= 3 /\ SubSeq(bs, 1, 3) = <<"f1", "f2", "f3">>
    THEN <<"R">> \o Utf8Decode(SubSeq(bs, 4, Len(bs)))
    ELSE IF Len(bs) >= 2 /\ SubSeq(bs, 1, 2) \in {<<"e1", "e2">>, <<"f1", "f2">>}
    THEN <<"R">> \o Utf8Decode(SubSeq(bs, 3, Len(bs)))
    ELSE <<"R">> \o Utf8Decode(Tail(bs))

\* the merges of the encoding, lowest rank first: "ab" is one token, "E"
\* is the two tokens e1e2 and e3, U+FFFD is one token
Merges ==
    <<<<<<"a">>, <<"b">>>>,
      <<<<"e1">>, <<"e2">>>>,
      <<<<"f1">>, <<"f2">>>>,
      <<<<"f1", "f2">>, <<"f3">>>>>>

\* rank of the merge of two adjacent tokens, 0 when they do not merge
PairRank(x, y) ==
    IF \E k \in DOMAIN Merges : Merges[k] = <<x, y>>
    THEN CHOOSE k \in DOMAIN Merges : Merges[k] = <<x, y>>
    ELSE 0

\* byte pair encoding: merge the leftmost pair of lowest rank until no pair
\* merges
RECURSIVE BytePairEncode(_)
BytePairEncode(ts) ==
    LET ranked == {k \in 1..(Len(ts) - 1) : PairRank(ts[k], ts[k + 1]) > 0}
    IN  IF ranked = {}
        THEN ts
        ELSE LET best == CHOOSE k \in ranked : \A j \in ranked :
                             \/ PairRank(ts[k], ts[k + 1]) < PairRank(ts[j], ts[j + 1])
                             \/ /\ PairRank(ts[k], ts[k + 1]) = PairRank(ts[j], ts[j + 1])
                                /\ k <= j
             IN  BytePairEncode(SubSeq(ts, 1, best - 1)
                                \o <<ts[best] \o ts[best + 1]>>
                                \o SubSeq(ts, best + 2, Len(ts)))

\* encoding.encode(text)
tokenize_text(text) ==
    BytePairEncode([k \in DOMAIN Utf8Encode(text) |-> <<Utf8Encode(text)[k]>>])

RECURSIVE Concat(_)
Concat(ss) == IF ss = <<>> THEN <<>> ELSE Head(ss) \o Concat(Tail(ss))

\* encoding.decode(tokenized_text)
detokenize_text(tokenized_text) == Utf8Decode(Concat(tokenized_text))

\* Python slice s[lo:hi] for lo >= 0 and any integer hi
PySlice(s, lo, hi) ==
    LET stop == IF hi < 0
                THEN (IF Len(s) + hi < 0 THEN 0 ELSE Len(s) + hi)
                ELSE Min(hi, Len(s))
    IN  SubSeq(s, lo + 1, stop)

\* variant of truncate_text_by_max_tokens: one token more is kept
truncate_text_keeps_one_more(text, max_tokens) ==
    IF Len(tokenize_text(text)) > max_tokens
    THEN [kind |-> "return",
          value |-> detokenize_text(PySlice(tokenize_text(text), 0, max_tokens + 1))]
    ELSE [kind |-> "return", value |-> text]

truncate_text_by_max_tokens(text, max_tokens) ==
    IF Len(tokenize_text(text)) > max_tokens
    THEN [kind |-> "return",
          value |-> detokenize_text(PySlice(tokenize_text(text), 0, max_tokens))]
    ELSE [kind |-> "return", value |-> text]

\* range(0, n, step) for step > 0
RangeFrom0(n, step) == [k \in 1..((n + step - 1) \div step) |-> (k - 1) * step]

\* variant of chunk_text: consecutive chunks share their boundary token
chunk_text_overlapping(text, chunk_size) ==
    IF chunk_size = 0
    THEN [kind |-> "raise", exc |-> "ValueError"]
    ELSE IF chunk_size < 0
    THEN [kind |-> "return", value |-> <<>>]
    ELSE LET encoded_text == tokenize_text(text)
             starts == RangeFrom0(Len(encoded_text), chunk_size)
         IN  [kind |-> "return",
              value |-> [k \in DOMAIN starts |->
                  detokenize_text(PySlice(encoded_text, starts[k],
                                          starts[k] + chunk_size + 1))]]

\* range(0, len(encoded_text), chunk_size) raises ValueError for step 0 and
\* is empty for a negative step
chunk_text(text, chunk_size) ==
    IF chunk_size = 0
    THEN [kind |-> "raise", exc |-> "ValueError"]
    ELSE IF chunk_size < 0
    THEN [kind |-> "return", value |-> <<>>]
    ELSE LET encoded_text == tokenize_text(text)
             starts == RangeFrom0(Len(encoded_text), chunk_size)
         IN  [kind |-> "return",
              value |-> [k \in DOMAIN starts |->
                  detokenize_text(PySlice(encoded_text, starts[k],
                                          starts[k] + chunk_size))]]

InitTokens ==
    /\ RetrieveIdle
    /\ ExtractIdle
    /\ SearchIdle
    /\ PipelineIdle
    /\ FunctionsIdle
    /\ SplitIdle
    /\ RerunIdle
    /\ ProgramsIdle
    /\ errors = <<>>
    /\ files = {}
    /\ tfn \in {"truncate_text_by_max_tokens", "chunk_text"}
    /\ ttext \in TokTexts
    /\ tbudget \in -1..MaxBudget
    /\ tout = NotCalled

TruncateCall ==
    /\ tfn = "truncate_text_by_max_tokens"
    /\ tout = NotCalled
    /\ tout' = truncate_text_by_max_tokens(ttext, tbudget)
    /\ UNCHANGED <<tfn, ttext, tbudget>>
    /\ UNCHANGED <<rvars, evars, svars, errors, pvars, gvars, cvars, bvars,
                   lvars, avars, wvars>>

ChunkCall ==
    /\ tfn = "chunk_text"
    /\ tout = NotCalled
    /\ tout' = chunk_text(ttext, tbudget)
    /\ UNCHANGED <<tfn, ttext, tbudget>>
    /\ UNCHANGED <<rvars, evars, svars, errors, pvars, gvars, cvars, bvars,
                   lvars, avars, wvars>>

NextTokens ==
    \/ TruncateCall
    \/ ChunkCall

SpecTokens == InitTokens /\ [][NextTokens]_vars

\* ------------------------------------------ splitCandidates (c_retrieval.py)
MaxItems == 4

MaxGroupSize == 3

InitSplit ==
    /\ RetrieveIdle
    /\ ExtractIdle
    /\ SearchIdle
    /\ PipelineIdle
    /\ FunctionsIdle
    /\ TokenIdle
    /\ RerunIdle
    /\ ProgramsIdle
    /\ errors = <<>>
    /\ files = {}
    /\ surls \in UNION {[1..n -> {"x", "y"}] : n \in 0..MaxItems}
    /\ sgroupSize \in -1..MaxGroupSize
    /\ sout = NotCalled

\* "assert groupSize > 0", then the list of slices
SplitCall ==
    /\ sout = NotCalled
    /\ sout' = IF sgroupSize > 0
               THEN [kind |-> "return", value |-> splitCandidates(surls, sgroupSize)]
               ELSE [kind |-> "raise", exc |-> "AssertionError"]
    /\ UNCHANGED <<surls, sgroupSize>>
    /\ UNCHANGED <<rvars, evars, svars, errors, pvars, gvars, cvars, bvars,
                   tvars, avars, wvars>>

NextSplit == SplitCall

SpecSplit == InitSplit /\ [][NextSplit]_vars

\* ------------------------------------------------------ the stages of a run
\* either stage of a run: retrieve from its first batch, or extract from
\* the rows of c1_retrievals.csv
InitStages == InitRetrieve \/ InitExtract

NextStages == NextRetrieve \/ NextExtract

SpecStages == InitStages /\ [][NextStages]_vars

\* ------------------------------------- retrieve called again in one process
\* a dictionary that an earlier call of retrieve in the same process appended
\* to the module-level list timeoutCandidates
Earlier == 0

\* state at the start of a later call of retrieve: every local of retrieve is
\* fresh, while the module-level timeoutCandidates still holds what the
\* earlier call left; the earlier worker either stored "Prompt" in the
\* dictionary (9 keys) or raised before storing it (8 keys)
InitRepeat ==
    /\ UtilitiesIdle
    /\ ExtractIdle
    /\ SearchIdle
    /\ PipelineIdle
    /\ FunctionsIdle
    /\ pc = IF Len(Groups) = 0 THEN "prompt" ELSE "submit"
    /\ batch = 1
    /\ idx = 1
    /\ waited = 0
    /\ wstate = [i \in Cands |-> "new"]
    /\ elapsed = [i \in Cands |-> 0]
    /\ dur \in [Cands -> 1..MaxDur]
    /\ fate \in [Cands -> {"returns", "raises", "hangs"}]
    /\ \A i \in Cands : fate[i] = "hangs" => dur[i] = 1
    /\ \E earlierPrompt \in {"none", "scraped"} :
          link = [i \in {Earlier} \cup Cands |->
                     [Prompt |-> IF i = Earlier THEN earlierPrompt ELSE "none"]]
    /\ bios = <<>>
    /\ timeoutCandidates = <<Earlier>>
    /\ pstate = [i \in Cands |-> "new"]
    /\ prompts = <<>>
    /\ errors = <<>>
    /\ files = {}
    /\ c1 = <<>>
    /\ c2 = <<>>

SpecRepeat == InitRepeat /\ [][NextRetrieve]_vars

\* ------------------------------------------------ d_extraction.extractAgain
\* prompts[2000:] in the fan-out of extractAgain
RerunOffset == 2000

\* numbers of rows of d2_promptErrors.csv
RowCounts == {0, 1, RerunOffset, RerunOffset + 1, RerunOffset + NumPrompts}

\* the rows handed to executor.submit: prompts[2000:]
Resubmitted == Slice(rprompts, RerunOffset, Len(rprompts))

\* the future of a resubmitted row, numbered by its position in prompts[2000:]
FutureOf(row) == row - RerunOffset

RowOf(p) == p + RerunOffset

\* state after read_csv of d2_promptErrors.csv: prompts holds one dictionary
\* per row, here the row number
InitAgain ==
    /\ TokenIdle
    /\ SplitIdle
    /\ ProgramsIdle
    /\ RetrieveIdle
    /\ SearchIdle
    /\ PipelineIdle
    /\ FunctionsIdle
    /\ errors = <<>>
    /\ files = {"d2_promptErrors.csv"}
    /\ epc = "submit"
    /\ fstate = [p \in Prompts |-> "new"]
    /\ attempts = [p \in Prompts |-> 0]
    /\ prec = [p \in Prompts |-> [Response |-> NoResponse]]
    /\ outputs = <<>>
    /\ promptErrors = <<>>
    /\ xstate = [p \in Prompts |-> "new"]
    /\ parsed = [p \in Prompts |-> NoValue]
    /\ rawResults = <<>>
    /\ parseErrors = <<>>
    /\ d1 = <<>>
    /\ \E n \in RowCounts : rprompts = [k \in 1..n |-> k]
    /\ d2 = rprompts
    /\ d3 = <<>>
    /\ attempt \in {"first", "later"}
    /\ d4 = <<>>

\* executor.submit(chatFeed, prompt) for prompt in prompts[2000:]
SubmitRerun ==
    /\ epc = "submit"
    /\ fstate' = [p \in Prompts |->
                    IF RowOf(p) \in Range(Resubmitted) THEN "queued" ELSE fstate[p]]
    /\ epc' = "feed"
    /\ UNCHANGED <<attempts, prec, outputs, promptErrors, xstate, parsed,
                   rawResults, parseErrors, d1, d2, d3, errors, files>>
    /\ UNCHANGED <<rvarsNoFiles, svars, pvars, gvars, cvars, bvars, tvars, lvars, avars,
                   wvars>>

\* extractCSV(outputs, promptErrors, variant="rerun") up to the fan-out of
\* parse: d2_promptErrors.csv is written anew from promptErrors
RerunCSVBegin ==
    /\ epc = "feed"
    /\ \A p \in Prompts :
          RowOf(p) \in Range(Resubmitted) => fstate[p] \in {"collected", "logged"}
    /\ d2' = [k \in DOMAIN promptErrors |-> RowOf(promptErrors[k])]
    /\ files' = files \cup {"d2_promptErrors.csv"}
    /\ xstate' = [p \in Prompts |-> IF p \in Range(outputs) THEN "queued" ELSE xstate[p]]
    /\ epc' = "parse"
    /\ UNCHANGED <<fstate, attempts, prec, outputs, promptErrors, parsed,
                   rawResults, parseErrors, d1, d3, errors>>
    /\ UNCHANGED <<rvarsNoFiles, svars, pvars, gvars, cvars, bvars, tvars, lvars, avars,
                   wvars>>

\* rest of extractCSV (variant "rerun"): d4_reruns.csv is written or appended
\* to, d3_parseErrors.csv is appended to
RerunCSVEnd ==
    /\ epc = "parse"
    /\ \A p \in Range(outputs) : xstate[p] = "collected"
    /\ d4' = IF attempt = "first" THEN rawResults ELSE d4 \o rawResults
    /\ d3' = d3 \o parseErrors
    /\ files' = files \cup {"d4_reruns.csv", "d3_parseErrors.csv"}
    /\ epc' = "done"
    /\ UNCHANGED <<fstate, attempts, prec, outputs, promptErrors, xstate, parsed,
                   rawResults, parseErrors, d1, d2, errors>>
    /\ UNCHANGED <<rvarsNoFiles, svars, pvars, gvars, cvars, bvars, tvars, lvars, wvars>>
    /\ UNCHANGED <<rprompts, attempt>>

NextAgain ==
    \/ SubmitRerun
    \/ \E p \in Prompts : ChatFeedAttemptRaises(p)
    \/ \E p \in Prompts, resp \in Responses : ChatFeedReturns(p, resp)
    \/ \E p \in Prompts : CollectFeed(p)
    \/ \E p \in Prompts : CollectFeedError(p)
    \/ RerunCSVBegin
    \/ \E p \in Prompts : ParseRun(p)
    \/ \E p \in Prompts : CollectParse(p)
    \/ RerunCSVEnd

SpecAgain == InitAgain /\ [][NextAgain]_vars

\* ---------------------------------------------------- randomRead (b_search.py)
MaxRows == 2

MaxN == 3

\* the cells first, middle, last, suffix of a row of the source table, as
\* str() gives them: a letter, or "nan" for an empty cell
TableRows == [first : {"A", "a"}, middle : {"nan", "B"},
              last : {"b", "nan"}, suffix : {"nan"}]

Tables == UNION {[1..m -> TableRows] : m \in 0..MaxRows}

\* " ".join(part for part in name if part != "nan").lower(): the parts that
\* are kept, in lower case
FullOf(r) ==
    LET name == <<r.first, r.middle, r.last, r.suffix>>
        kept == SelectSeq(name, LAMBDA part : part # "nan")
    IN  [k \in DOMAIN kept |-> Lower(kept[k])]

\* the dictionary candidate built from the row with index row
CandidateOf(df, row) ==
    [First |-> Lower(df[row].first),
     Middle |-> Lower(df[row].middle),
     Last |-> Lower(df[row].last),
     Full |-> FullOf(df[row]),
     Row |-> row]

InitRead ==
    /\ RetrieveIdle
    /\ ExtractIdle
    /\ SearchIdle
    /\ PipelineIdle
    /\ FunctionsIdle
    /\ TokenIdle
    /\ SplitIdle
    /\ RerunIdle
    /\ BatchesIdle
    /\ ViolationsIdle
    /\ errors = <<>>
    /\ files = {}
    /\ qpc = "start"
    /\ qdf \in Tables
    /\ qn \in 0..MaxN
    /\ qi = 0
    /\ reps = <<>>
    /\ alreadyRead = {}

\* "assert n > 0", then read_csv and the initialisation of the locals
ReadStart ==
    /\ qpc = "start"
    /\ qpc' = IF qn > 0 THEN "loop" ELSE "raised"
    /\ UNCHANGED <<qdf, qn, qi, reps, alreadyRead>>
    /\ UNCHANGED <<rvars, evars, svars, errors, pvars, gvars, cvars, bvars,
                   tvars, lvars, avars, kvars, vvars>>

\* variant of ReadPick: the candidate is appended without the test of
\* alreadyRead
ReadPickAny(row) ==
    /\ qpc = "loop"
    /\ qi < qn
    /\ row \in DOMAIN qdf
    /\ LET candidate == CandidateOf(qdf, row)
       IN  /\ reps' = Append(reps, candidate)
           /\ alreadyRead' = alreadyRead \cup {candidate.Full}
           /\ qi' = qi + 1
    /\ UNCHANGED <<qpc, qdf, qn>>
    /\ UNCHANGED <<rvars, evars, svars, errors, pvars, gvars, cvars, bvars,
                   tvars, lvars, avars, kvars, vvars>>

\* variant of ReadPick: i is incremented for every row drawn
ReadPickCountsRepeat(row) ==
    /\ qpc = "loop"
    /\ qi < qn
    /\ row \in DOMAIN qdf
    /\ LET candidate == CandidateOf(qdf, row)
       IN  IF candidate.Full \notin alreadyRead
           THEN /\ reps' = Append(reps, candidate)
                /\ alreadyRead' = alreadyRead \cup {candidate.Full}
           ELSE UNCHANGED <<reps, alreadyRead>>
    /\ qi' = qi + 1
    /\ UNCHANGED <<qpc, qdf, qn>>
    /\ UNCHANGED <<rvars, evars, svars, errors, pvars, gvars, cvars, bvars,
                   tvars, lvars, avars, kvars, vvars>>

\* one pass of "while i < n" in which random.randint(0, len(df) - 1) gives row
ReadPick(row) ==
    /\ qpc = "loop"
    /\ qi < qn
    /\ row \in DOMAIN qdf
    /\ LET candidate == CandidateOf(qdf, row)
       IN  IF candidate.Full \notin alreadyRead
           THEN /\ reps' = Append(reps, candidate)
                /\ alreadyRead' = alreadyRead \cup {candidate.Full}
                /\ qi' = qi + 1
           ELSE UNCHANGED <<reps, alreadyRead, qi>>
    /\ UNCHANGED <<qpc, qdf, qn>>
    /\ UNCHANGED <<rvars, evars, svars, errors, pvars, gvars, cvars, bvars,
                   tvars, lvars, avars, kvars, vvars>>

\* random.randint(0, -1) on a table without rows raises ValueError
ReadPickRaises ==
    /\ qpc = "loop"
    /\ qi < qn
    /\ Len(qdf) = 0
    /\ qpc' = "raised"
    /\ UNCHANGED <<qdf, qn, qi, reps, alreadyRead>>
    /\ UNCHANGED <<rvars, evars, svars, errors, pvars, gvars, cvars, bvars,
                   tvars, lvars, avars, kvars, vvars>>

\* the test "i < n" fails: return reps
ReadReturn ==
    /\ qpc = "loop"
    /\ qi >= qn
    /\ qpc' = "done"
    /\ UNCHANGED <<qdf, qn, qi, reps, alreadyRead>>
    /\ UNCHANGED <<rvars, evars, svars, errors, pvars, gvars, cvars, bvars,
                   tvars, lvars, avars, kvars, vvars>>

NextRead ==
    \/ ReadStart
    \/ \E row \in 1..MaxRows : ReadPick(row)
    \/ ReadPickRaises
    \/ ReadReturn

SpecRead == InitRead /\ [][NextRead]_vars

\* random.randint draws every row with positive probability: no row is
\* left out forever
FairSpecRead ==
    /\ SpecRead
    /\ WF_vars(ReadStart)
    /\ \A row \in 1..MaxRows : WF_vars(ReadPick(row))
    /\ WF_vars(ReadPickRaises)
    /\ WF_vars(ReadReturn)

\* ------------------------------------------ the batch loop of retrieve at scale
\* splitCandidates(urls, 100)
RetrieveGroupSize == 100

\* the first position of the search data that lies behind the last batch
BatchLimit == lastBatch * RetrieveGroupSize

\* numbers of rows of the search data
SearchSizes == {0, 1, RetrieveGroupSize + 1, BatchLimit - 1, BatchLimit,
                BatchLimit + 1, BatchLimit + RetrieveGroupSize + 1}

\* urls: one dictionary per row, here its position in the search data
UrlsOf(n) == [i \in 1..n |-> i - 1]

\* variant of BatchesOf: every batch of cands is iterated
AllBatchesOf(n) == splitCandidates(UrlsOf(n), RetrieveGroupSize)

\* cands[firstBatch:lastBatch] for cands = splitCandidates(urls, 100)
BatchesOf(n) == Slice(splitCandidates(UrlsOf(n), RetrieveGroupSize), firstBatch, lastBatch)

InitBatches ==
    /\ RetrieveIdle
    /\ ExtractIdle
    /\ SearchIdle
    /\ PipelineIdle
    /\ FunctionsIdle
    /\ TokenIdle
    /\ SplitIdle
    /\ RerunIdle
    /\ ReadIdle
    /\ ViolationsIdle
    /\ errors = <<>>
    /\ files = {}
    /\ kpc = "loop"
    /\ kn \in SearchSizes
    /\ kgroups = BatchesOf(kn)
    /\ kfate \in {"returns", "times out", "raises"}
    /\ kbatch = 0
    /\ kdispatched = {}
    /\ kbios = {}
    /\ ktimeouts = {}
    /\ kfailures = {}

\* the slice cands[firstBatch:lastBatch] is built once, before the loop;
\* one pass of "for index, group in enumerate(cands[firstBatch:lastBatch])":
\* every link of the group is submitted to bioData, and the fan-in puts it
\* into bios, into timeoutCandidates or into errors.txt
BatchPass ==
    /\ kpc = "loop"
    /\ kbatch < Len(kgroups)
    /\ LET group == Range(kgroups[kbatch + 1])
       IN  /\ kdispatched' = kdispatched \cup group
           /\ kbios' = IF kfate = "returns" THEN kbios \cup group ELSE kbios
           /\ ktimeouts' = IF kfate = "times out" THEN ktimeouts \cup group ELSE ktimeouts
           /\ kfailures' = IF kfate = "raises" THEN kfailures \cup group ELSE kfailures
    /\ kbatch' = kbatch + 1
    /\ UNCHANGED <<kpc, kn, kgroups, kfate>>
    /\ UNCHANGED <<rvars, evars, svars, errors, pvars, gvars, cvars, bvars,
                   tvars, lvars, avars, qvars, vvars>>

\* the slice is exhausted
BatchesDone ==
    /\ kpc = "loop"
    /\ kbatch = Len(kgroups)
    /\ kpc' = "done"
    /\ UNCHANGED <<kn, kgroups, kfate, kbatch, kdispatched, kbios, ktimeouts, kfailures>>
    /\ UNCHANGED <<rvars, evars, svars, errors, pvars, gvars, cvars, bvars,
                   tvars, lvars, avars, qvars, vvars>>

NextBatches ==
    \/ BatchPass
    \/ BatchesDone

SpecBatches == InitBatches /\ [][NextBatches]_vars

\* ------------------------------------ violations_helper (state_medical_boards)
NumDocs == 2

\* truncate_text_by_max_tokens(text=row["textdata"], max_tokens=12000)
MaxCaseTokens == 12000

\* the output fields of DoctorViolationModel
Judgments == {"patient_mentioned", "fraud_case", "malpractice_case", "dea_case",
              "improper_opioid_prescription", "improper_drug_prescription",
              "unfit_to_practice", "bad_medical_records", "license_issues",
              "miscellaneous_violation", "other_state_action",
              "no_substantive_information", "proactive"}

\* the columns assigned in the branch of the empty text and in the except
\* branch
MarkedColumns == {"patient_mentioned", "fraud_case", "malpractice_case", "dea_case",
                  "improper_opioid_prescription", "improper_drug_prescription",
                  "unfit_to_practice", "bad_medical_records", "license_issues",
                  "miscellaneous_violation", "other_state_action",
                  "no_substantative_information", "proactive"}

\* the columns assigned from the response
ResponseColumns == {"patient_mentioned", "fraud_case", "malpractice_case", "dea_case",
                    "improper_opioid_prescription", "improper_drug_prescription",
                    "unfit_to_practice", "bad_medical_records", "license_issues",
                    "miscellaneous_violation", "other_state_action",
                    "no_substantive_information", "proactive"}

\* the attribute of the response that is assigned to the column
AttributeFor(column) ==
    IF column = "improper_drug_prescription"
    THEN "improper_opioid_prescription"
    ELSE column

\* row[column] = values[column] for every column of values
Assign(row, values) ==
    [c \in DOMAIN row \cup DOMAIN values |->
        IF c \in DOMAIN values THEN values[c] ELSE row[c]]

\* textdata of a document: the empty string or a case text
CaseTexts == {<<>>, <<"a", "b">>}

\* what program(case_document=...) does: it raises, or it returns a
\* prediction with a judgment ("0" or "1", written as the digit) for every
\* output field
ProgramOutcomes ==
    {[kind |-> "raise"]}
    \cup {[kind |-> "response", response |-> [j \in Judgments |-> "0"]]}
    \cup {[kind |-> "response",
           response |-> [j \in Judgments |-> IF j = one THEN "1" ELSE "0"]] : one \in Judgments}

\* violations_helper(row, program), where outcome is what the call of
\* program does
violations_helper(row, outcome) ==
    IF row["textdata"] = <<>>
    THEN Assign(row, [c \in MarkedColumns |-> "empty"])
    ELSE LET truncated_case_text == truncate_text_by_max_tokens(row["textdata"], MaxCaseTokens)
         IN  IF truncated_case_text.kind = "return" /\ outcome.kind = "response"
             THEN Assign(row, [c \in ResponseColumns |->
                                  outcome.response[AttributeFor(c)]])
             ELSE Assign(row, [c \in MarkedColumns |-> "failed to process"])

InitViolations ==
    /\ RetrieveIdle
    /\ ExtractIdle
    /\ SearchIdle
    /\ PipelineIdle
    /\ FunctionsIdle
    /\ TokenIdle
    /\ SplitIdle
    /\ RerunIdle
    /\ ReadIdle
    /\ BatchesIdle
    /\ errors = <<>>
    /\ files = {}
    /\ documents \in [1..NumDocs -> CaseTexts]
    /\ vidx = 1
    /\ violations = <<>>
    /\ voutcomes = <<>>

\* progress_apply(violations_helper, axis=1): the helper is applied to the
\* next document
ViolationsApply(outcome) ==
    /\ vidx <= Len(documents)
    /\ LET row == [c \in {"textdata"} |-> documents[vidx]]
       IN  /\ violations' = Append(violations, violations_helper(row, outcome))
           /\ voutcomes' = Append(voutcomes,
                                  IF row["textdata"] = <<>>
                                  THEN [kind |-> "not called"]
                                  ELSE outcome)
    /\ vidx' = vidx + 1
    /\ UNCHANGED documents
    /\ UNCHANGED <<rvars, evars, svars, errors, pvars, gvars, cvars, bvars,
                   tvars, lvars, avars, qvars, kvars>>

NextViolations == \E outcome \in ProgramOutcomes : ViolationsApply(outcome)

SpecViolations == InitViolations /\ [][NextViolations]_vars

\* ------------------------------------------------------------ properties
\* number of occurrences of x in the sequence s
Occ(s, x) == Cardinality({k \in DOMAIN s : s[k] = x})

\* the failures of the scrape stage: the items whose bioData exception was
\* appended to errors.txt
failures ==
    LET logged == SelectSeq(errors, LAMBDA e : e.fn = "bioData" /\ e.exc # "TimeoutError")
    IN  [k \in 1..Len(logged) |-> logged[k].item]

Dispatched(i) == wstate[i] # "new"

OutcomeCount(i) == Occ(bios, i) + Occ(timeoutCandidates, i) + Occ(failures, i)

ScrapeDone == pc \in {"prompt", "collect", "done"}

\* the batch (1-based) a candidate belongs to
BatchOf(i) == CHOOSE b \in 1..Len(Groups) : i \in Range(Groups[b])

InGroups == UNION {Range(Groups[b]) : b \in 1..Len(Groups)}

\* C1: every dispatched candidate ends in exactly one of bios,
\* timeoutCandidates and the logged failures, never in two of them, and when
\* the scrape stage is over the three sizes sum to the number of dispatched
\* candidates.
C1_ScrapeAccounting ==
    /\ \A i \in Cands : OutcomeCount(i) <= 1
    /\ \A i \in Cands : OutcomeCount(i) = 1 => Dispatched(i)
    /\ ScrapeDone =>
         /\ \A i \in Cands : Dispatched(i) => OutcomeCount(i) = 1
         /\ Len(bios) + Len(timeoutCandidates) + Len(failures)
              = Cardinality({i \in Cands : Dispatched(i)})

C1_Witness ==
    /\ ScrapeDone
    /\ Len(bios) > 0
    /\ Len(timeoutCandidates) > 0
    /\ Len(failures) > 0

\* a worker that takes longer than the per-item timeout to complete
SlowWorker(i) == fate[i] = "hangs" \/ dur[i] > Timeout

\* C2: an item whose worker takes longer than the timeout is never in bios
\* or in the failures, and once its future has been awaited it is exactly
\* once in timeoutCandidates.
C2_SlowWorkerTimesOut ==
    \A i \in Cands : SlowWorker(i) =>
        /\ Occ(bios, i) = 0
        /\ Occ(failures, i) = 0
        /\ ScrapeDone /\ Dispatched(i) => Occ(timeoutCandidates, i) = 1

\* C4: when retrieveCSV has run, every candidate recorded as timed out is a
\* row of c2_scrapingTimeouts.csv, also when its worker has completed after
\* the timeout was recorded.
C4_TimeoutsWritten ==
    pc = "done" => \A i \in Range(timeoutCandidates) : Occ(c2, i) = 1

\* C6: a timeout or an exception of one item skips no other item: while a
\* group is awaited all of its items are dispatched and the ones before the
\* awaited future have their outcome, every earlier group is fully booked,
\* and at the end of the stage every candidate has been dispatched and has
\* its outcome.
C6_NoItemSkipped ==
    /\ pc \in {"wait", "shutdown"} =>
         \A k \in 1..Len(Group) :
            /\ Dispatched(Group[k])
            /\ (k < idx \/ pc = "shutdown") => OutcomeCount(Group[k]) = 1
    /\ \A i \in InGroups : ~ScrapeDone /\ BatchOf(i) < batch => OutcomeCount(i) = 1
    /\ ScrapeDone => \A i \in InGroups : Dispatched(i) /\ OutcomeCount(i) = 1

C6_Witness ==
    /\ ScrapeDone
    /\ Occ(timeoutCandidates, 1) = 1
    /\ Occ(failures, 2) = 1
    /\ Occ(bios, 3) = 1
    /\ Occ(bios, NumCands) = 1

\* C7: no worker of a group is dispatched before every item of every earlier
\* group has its outcome recorded and its worker finished; the items of the
\* group being awaited are all dispatched together, up to MaxWorkers of them
\* running at once.
C7_BatchesSequential ==
    /\ \A i \in InGroups : Dispatched(i) =>
          \A j \in InGroups : BatchOf(j) < BatchOf(i) =>
              OutcomeCount(j) = 1 /\ Finished(j)
    /\ pc = "wait" => \A i \in Range(Group) : Dispatched(i)
    /\ Cardinality(Running) <= MaxWorkers

C7_Witness ==
    /\ batch = 2
    /\ \E i \in Range(Group) : wstate[i] = "running"
    /\ Len(timeoutCandidates) > 0
    /\ Len(bios) > 0

\* every item of group b has its outcome booked
Booked(b) == \A i \in Range(Groups[b]) : OutcomeCount(i) = 1

\* C8: once the outcomes of a group are all collected (every timeout of the
\* group has elapsed), the next group eventually starts or the stage ends.
C8_SlowWorkerDelayBounded ==
    \A b \in 1..Len(Groups) : Booked(b) ~> (batch > b \/ ScrapeDone)

\* C10: every record of bios ends in exactly one output partition of
\* retrieveCSV: a row of c1_retrievals.csv or a row of the failure file.
C10_NoSilentDropInPrompts ==
    pc = "done" => \A i \in Range(bios) : Occ(c1, i) + Occ(c2, i) = 1

\* the response of an output does not decode as JSON
NotJson(p) == ~JsonLoads(StripNewlines(prec[p].Response)).ok

\* C3: when extractCSV is done, every output whose response is not valid
\* JSON is an entry of d3_parseErrors.csv (the output record, response
\* included) and is no row of d1_extractions.csv.
C3_NonJsonInParseErrors ==
    epc = "done" =>
        \A p \in Range(outputs) : NotJson(p) =>
            /\ Occ(d3, p) = 1
            /\ \A k \in DOMAIN d1 : d1[k].FullName # p

\* C5: for valid arguments search never raises: a googleSearch call that has
\* exhausted its retries leaves the loop running, and b1_searches.csv is
\* written when search ends.
C5_SearchFailureIsolated ==
    /\ (1 <= sr /\ sr <= 4) => spc # "raised"
    /\ spc = "done" => "b1_searches.csv" \in files

FeedDone == epc \in {"parse", "done"}

\* C9: every prompt submitted to chatFeed ends in exactly one of outputs and
\* promptErrors; an entry of promptErrors is the unchanged prompt record of a
\* call that raised after its last attempt; after the fan-in the two sizes
\* sum to the number of prompts.
C9_FeedAccounting ==
    /\ \A p \in Prompts : Occ(outputs, p) + Occ(promptErrors, p) <= 1
    /\ \A p \in Range(promptErrors) :
          prec[p].Response = NoResponse /\ attempts[p] = MaxAttempts
    /\ \A p \in Range(outputs) : prec[p].Response \in Responses
    /\ FeedDone =>
          /\ \A p \in Prompts : Occ(outputs, p) + Occ(promptErrors, p) = 1
          /\ Len(outputs) + Len(promptErrors) = NumPrompts

C9_Witness ==
    /\ FeedDone
    /\ Len(outputs) > 0
    /\ Len(promptErrors) > 0

\* C11: a call of chatFeed or googleSearch makes at most MaxAttempts
\* attempts: the attempt number only grows by one and only while the call is
\* still running, a call that has returned or raised makes no further
\* attempt, and the call raises only after attempt number MaxAttempts.
C11_AtMostSixAttempts ==
    /\ [](\A p \in Prompts :
            /\ attempts[p] <= MaxAttempts
            /\ fstate[p] = "raised" => attempts[p] = MaxAttempts)
    /\ [](gattempt <= MaxAttempts /\ (spc = "raised" => gattempt = MaxAttempts))
    /\ [][/\ \A p \in Prompts :
               /\ attempts'[p] # attempts[p] =>
                     /\ fstate[p] = "queued"
                     /\ attempts[p] < MaxAttempts
                     /\ attempts'[p] = attempts[p] + 1 \/ fstate'[p] = "returned"
               /\ fstate[p] \in {"returned", "raised"} =>
                     fstate'[p] = fstate[p] /\ attempts'[p] = attempts[p]
          /\ gattempt' # gattempt =>
               spc = "call" /\ spc' = "call" /\ gattempt' = gattempt + 1
          /\ spc \in {"returned", "raised"} =>
               spc' = spc /\ gattempt' = gattempt]_vars

C11_Witness ==
    /\ spc = "raised"
    /\ gattempt = MaxAttempts
    /\ \E p \in Prompts : fstate[p] = "raised" /\ attempts[p] = MaxAttempts
    /\ \E p \in Prompts : fstate[p] = "returned"

\* C13: a call of googleSearch with r outside 1..4 makes no second attempt.
C13_InvalidCountNotRetried ==
    (spc \in {"call", "raised"} /\ (sr < 1 \/ sr > 4)) => gattempt = 1

\* C12: gatherData and gatherRow called with an out-of-range argument raise
\* at once: no output file is deleted, errors.txt is untouched, and the
\* search stage is never entered, so no search call is issued.
InvalidArguments ==
    \/ pr < 1
    \/ pr > 4
    \/ pfn = "gatherData" /\ (pn <= 0 \/ pread \notin {"random", "order"})

C12_FailFast ==
    /\ [](InvalidArguments =>
            /\ ppc \in {"start", "rejected"}
            /\ spc = "idle"
            /\ searchUrls = <<>>)
    /\ [][InvalidArguments =>
            /\ files' = files
            /\ errors' = errors
            /\ spc' = spc
            /\ gattempt' = gattempt]_vars

C12_Witness ==
    /\ pfn = "gatherData"
    /\ pn <= 0
    /\ pr \in 1..4
    /\ pread = "random"
    /\ ppc = "rejected"
    /\ files = outputFiles

\* the members written in a response text
MembersOf(t) == {t[k] : k \in DOMAIN t} \cap MemberTokens

\* C14: parse always returns: for a response that is prose or a cut-off
\* object it returns the failure value holding the record it was given, and
\* for a well-formed object that lacks expected keys it returns a data
\* record with exactly the keys of the response next to the record's own
\* name and identifier.
C14_ParseTotal ==
    \A p \in Prompts : xstate[p] = "done" =>
        /\ parsed[p].tag \in {"fail", "data"}
        /\ prec[p].Response \in {RespProse, RespTruncated} =>
              parsed[p] = [tag |-> "fail", output |-> p]
        /\ prec[p].Response \in {RespPartial, RespNewlines, RespEmptyObject} =>
              /\ parsed[p].tag = "data"
              /\ parsed[p].keys = MembersOf(prec[p].Response)
              /\ parsed[p].FullName = p
              /\ parsed[p].Candid = [of |-> p, from |-> "record"]

C14_Witness ==
    \E p, q \in Prompts :
        /\ xstate[p] = "done"
        /\ xstate[q] = "done"
        /\ prec[p].Response = RespProse
        /\ parsed[p].tag = "fail"
        /\ prec[q].Response = RespPartial
        /\ parsed[q].tag = "data"

\* C15: every data record returned by parse carries the Candid of the
\* record it was given, whatever members the response has.
C15_CandidImmutable ==
    \A p \in Prompts :
        (xstate[p] = "done" /\ parsed[p].tag = "data") =>
            parsed[p].Candid = [of |-> p, from |-> "record"]

\* C16: every call of chatPrompt for one candidate record returns the same
\* prompt, a second call on the same record included.
C16_PromptRepeatable ==
    \A i, j \in DOMAIN cresults : cresults[i] = cresults[j]

\* the white-space-delimited tokens of a text, in order
RECURSIVE Tokens(_)
Tokens(t) ==
    IF t = <<>>
    THEN <<>>
    ELSE IF t[1] \in WhiteSpace
         THEN Tokens(Tail(t))
         ELSE LET n == CHOOSE m \in 1..Len(t) :
                          /\ \A k \in 1..m : t[k] \notin WhiteSpace
                          /\ m = Len(t) \/ t[m + 1] \in WhiteSpace
              IN  <<SubSeq(t, 1, n)>> \o Tokens(SubSeq(t, n + 1, Len(t)))

\* C17: for a text that contains the phrase, the window returned by grabber
\* begins with the phrase and has at most WindowWords white-space-delimited
\* tokens.
C17_WindowBounded ==
    (gsummary # Unbound /\ gphrase \in Range(gtext)) =>
        /\ gsummary # <<>>
        /\ gsummary[1] = gphrase
        /\ Len(Tokens(gsummary)) <= WindowWords

\* C18: the tokens of the window returned by grabber are the tokens of the
\* text from the phrase on, up to and including the first "accessibility"
\* when it is among the first WindowWords of them, and the first WindowWords
\* of them otherwise.
C18_AccessibilityCut ==
    (gsummary # Unbound /\ gphrase \in Range(gtext)) =>
        LET toks == Tokens(PartitionFrom(gtext, gphrase))
            head == Slice(toks, 0, WindowWords)
        IN  Tokens(gsummary) =
                IF <<"acc">> \in Range(head)
                THEN Slice(toks, 0, Find(head, <<"acc">>))
                ELSE head

\* the window of a page for a candidate: the window after the last name,
\* else after the first name, else after the middle name, taking the first
\* of the names that is present (not "nan") and gives a non-empty window
RECURSIVE FirstWindow(_, _)
FirstWindow(page, names) ==
    IF names = <<>>
    THEN <<>>
    ELSE IF names[1] # "nan" /\ grabber(page, names[1]) # <<>>
         THEN grabber(page, names[1])
         ELSE FirstWindow(page, Tail(names))

AnchorWindow(page) == FirstWindow(page, <<blink.Last, blink.First, blink.Middle>>)

\* the URLs of the candidate that were fetched and read
ReadUrls == SelectSeq(blink.Sources, LAMBDA u : u.kind # "nan" /\ u.ok)

NonEmpty(ws) == SelectSeq(ws, LAMBDA w : w # <<>>)

\* C19: when every URL of a candidate is read, the non-empty windows kept
\* are, URL by URL, the ones anchored at the first of last, first and middle
\* name that is present and occurs in the page.
C19_AnchorPriority ==
    (bpc = "done" /\ ReadUrls = blink.Sources) =>
        NonEmpty(summaries) =
            NonEmpty([k \in DOMAIN blink.Sources |-> AnchorWindow(blink.Sources[k].page)])

\* C20: for a candidate with a last name, the context returned by bioData
\* has the words of the space-joined windows of the URLs that were read, in
\* order; a URL that failed adds nothing.
C20_FailedUrlContributesNothing ==
    (bpc = "done" /\ blink.Last # "nan") =>
        Tokens(blink.Prompt) =
            Tokens(JoinSpace([k \in DOMAIN ReadUrls |-> AnchorWindow(ReadUrls[k].page)]))

C22_ChunksPartitionTokens ==
    (tfn = "chunk_text" /\ tout.kind # "none" /\ tbudget > 0) =>
        LET enc == tokenize_text(ttext)
            n == (Len(enc) + tbudget - 1) \div tbudget
            slice(k) == SubSeq(enc, (k - 1) * tbudget + 1, Min(k * tbudget, Len(enc)))
        IN  /\ tout.kind = "return"
            /\ tout.value = [k \in 1..n |-> detokenize_text(slice(k))]
            /\ \A k \in 1..n : Len(slice(k)) >= 1 /\ Len(slice(k)) <= tbudget
            /\ Concat([k \in 1..n |-> slice(k)]) = enc

C22_Witness ==
    /\ tfn = "chunk_text"
    /\ tout.kind # "none"
    /\ tbudget = 2
    /\ ttext = <<"a", "E", "b">>
    /\ tout.value = <<<<"a", "R">>, <<"R", "b">>>>

\* C23: a call of truncate_text_by_max_tokens or chunk_text with a budget
\* of zero or less raises an error.
C23_BudgetRejected ==
    (tout.kind # "none" /\ tbudget <= 0) => tout.kind = "raise"

\* C24: for groupSize > 0 splitCandidates returns batches whose
\* concatenation is the input list, each of 1 to groupSize items and all
\* but the last of exactly groupSize items; for groupSize <= 0 it raises.
C24_SplitPartitions ==
    sout.kind # "none" =>
        IF sgroupSize > 0
        THEN /\ sout.kind = "return"
             /\ Concat(sout.value) = surls
             /\ \A b \in DOMAIN sout.value :
                    /\ Len(sout.value[b]) >= 1
                    /\ Len(sout.value[b]) <= sgroupSize
                    /\ b < Len(sout.value) => Len(sout.value[b]) = sgroupSize
        ELSE sout.kind = "raise"

C24_Witness ==
    /\ sout.kind = "return"
    /\ sgroupSize = 2
    /\ Len(surls) = 3
    /\ Len(sout.value) = 2
    /\ Len(sout.value[2]) = 1

\* C25: a candidate in timeoutCandidates is never given to chatPrompt and
\* has no row in c1_retrievals.csv (the rows extract sends to the service);
\* a prompt in promptErrors is never given to parse; parse is run only for
\* prompts that are in outputs, with the response chatFeed returned.
C25_TerminalStatesFinal ==
    /\ \A i \in Range(timeoutCandidates) :
          /\ pstate[i] = "new"
          /\ Occ(bios, i) = 0
          /\ Occ(prompts, i) = 0
          /\ Occ(c1, i) = 0
    /\ \A p \in Range(promptErrors) :
          /\ xstate[p] = "new"
          /\ parsed[p] = NoValue
    /\ \A p \in Prompts :
          xstate[p] # "new" =>
              /\ Occ(outputs, p) = 1
              /\ Occ(promptErrors, p) = 0
              /\ prec[p].Response \in Responses

C25_Witness ==
    /\ pc = "done"
    /\ Len(timeoutCandidates) > 0
    /\ Len(c1) > 0
    /\ \E i \in Range(timeoutCandidates) : wstate[i] = "returned"

\* a worker of a stage has been submitted and has not finished
WorkersRunning ==
    \/ Running # {}
    \/ Queued # {}
    \/ \E i \in Cands : pstate[i] = "queued"
    \/ \E p \in Prompts : fstate[p] = "queued" \/ xstate[p] = "queued"

\* C26 as stated: no step writes a CSV file or errors.txt while a worker of
\* the stage is still running.
C26_NoWriteWhileWorkersRun ==
    [][(files' # files \/ errors' # errors) => ~WorkersRunning]_vars

\* C26 amended: no step writes a CSV file while a worker of the stage is
\* still running; errors.txt is appended during the fan-in, but only by
\* steps of the coordinating thread, never by a step of a worker.
C26_CsvAfterFanIn ==
    [][/\ files' # files => ~WorkersRunning
       /\ errors' # errors =>
            /\ wstate' = wstate
            /\ link' = link
            /\ attempts' = attempts
            /\ prec' = prec
            /\ parsed' = parsed
            /\ \A i \in Cands : pstate'[i] # pstate[i] => pstate'[i] = "logged"
            /\ \A p \in Prompts : fstate'[p] # fstate[p] => fstate'[p] = "logged"]_vars

C26_Witness ==
    /\ pc = "wait"
    /\ Len(errors) > 0
    /\ Running # {}
    /\ files = {}

\* C27: a run of retrieve that completes has written c1_retrievals.csv and
\* c2_scrapingTimeouts.csv, and a run of extract that completes has written
\* d1_extractions.csv, d2_promptErrors.csv and d3_parseErrors.csv, whether
\* or not the partition has a row.
C27_AllPartitionsWritten ==
    /\ pc = "done" =>
          {"c1_retrievals.csv", "c2_scrapingTimeouts.csv"} \subseteq files
    /\ epc = "done" =>
          {"d1_extractions.csv", "d2_promptErrors.csv", "d3_parseErrors.csv"} \subseteq files

C27_Witness ==
    /\ epc = "done"
    /\ d2 = <<>>
    /\ d3 = <<>>
    /\ Len(d1) > 0
    /\ "d2_promptErrors.csv" \in files

C28_EarlierCallLeavesEntry ==
    ~(/\ pc = "done"
      /\ \E i \in Range(timeoutCandidates) : NumKeys(i) = KeysOfSearchRow)

\* the items for which future.result(timeout) raised TimeoutError, in the
\* order of errors.txt
TimedOutWaits ==
    LET logged == SelectSeq(errors, LAMBDA e : e.fn = "bioData" /\ e.exc = "TimeoutError")
    IN  [k \in 1..Len(logged) |-> logged[k].item]

\* C29: a step either leaves timeoutCandidates as it is or appends one item
\* at its end, and it appends exactly when the wait for the awaited item
\* times out; no item is in the list twice; and in every state the list
\* holds exactly the items whose wait timed out.
C29_TimeoutListAppendOnly ==
    /\ [][\/ timeoutCandidates' = timeoutCandidates
          \/ /\ pc = "wait" /\ waited = Timeout /\ ~Finished(Awaited)
             /\ timeoutCandidates' = Append(timeoutCandidates, Awaited)]_vars
    /\ [](\A i \in Cands : Occ(timeoutCandidates, i) <= 1)
    /\ [](timeoutCandidates = TimedOutWaits)

C29_Witness ==
    /\ ScrapeDone
    /\ Len(timeoutCandidates) >= 2
    /\ \E i \in Range(Groups[1]), j \in Range(Groups[Len(Groups)]) :
          /\ Len(Groups) > 1
          /\ Occ(timeoutCandidates, i) = 1 /\ Occ(timeoutCandidates, j) = 1
    /\ \E i \in Cands : wstate[i] = "raised" /\ Occ(timeoutCandidates, i) = 0

\* C30: once extractAgain has made its fan-out, every row read from
\* d2_promptErrors.csv has been submitted to chatFeed.
C30_EveryRowResubmitted ==
    epc # "submit" =>
        \A k \in DOMAIN rprompts :
            /\ FutureOf(rprompts[k]) \in Prompts
            /\ fstate[FutureOf(rprompts[k])] # "new"

\* a rerun whose file has more rows than the offset does reach chatFeed and
\* writes d4_reruns.csv
C30_RerunCompletes ==
    ~(epc = "done" /\ Len(d4) > 0 /\ Len(rprompts) > RerunOffset)

\* C31: when randomRead has returned, reps holds exactly n candidates, their
\* full names are pairwise distinct, and each is the candidate built from
\* one row of the source table.
C31_ExactlyNDistinct ==
    qpc = "done" =>
        /\ Len(reps) = qn
        /\ \A j, k \in DOMAIN reps : j # k => reps[j].Full # reps[k].Full
        /\ \A k \in DOMAIN reps :
              \E row \in DOMAIN qdf : reps[k] = CandidateOf(qdf, row)

C31_Witness ==
    /\ qpc = "done"
    /\ qn = 2
    /\ Len(reps) = 2
    /\ \E j, k \in DOMAIN qdf : j # k /\ qdf[j] # qdf[k] /\ FullOf(qdf[j]) # FullOf(qdf[k])

\* number of distinct full names in the source table
DistinctNames == Cardinality({FullOf(qdf[row]) : row \in DOMAIN qdf})

ReadStopped == qpc \in {"done", "raised"}

\* C33 as stated: under fair choice of rows randomRead terminates when n is
\* at most the number of distinct full names, and when n exceeds that number
\* the call never terminates.
C33_TerminatesIffEnough ==
    /\ (qn <= DistinctNames) ~> ReadStopped
    /\ [](qn > DistinctNames => ~ReadStopped)

\* C33 amended: under fair choice of rows randomRead returns when
\* 1 <= n <= the number of distinct full names, and returns only then; when
\* n exceeds that number and the table has a row, the loop never terminates;
\* when the table has no row (and n > 0), the first draw raises.
C33_ReturnsIffEnough ==
    /\ (1 <= qn /\ qn <= DistinctNames) ~> (qpc = "done")
    /\ [](qpc = "done" => 1 <= qn /\ qn <= DistinctNames)
    /\ []((qn > DistinctNames /\ Len(qdf) > 0) => ~ReadStopped)
    /\ (qn > 0 /\ Len(qdf) = 0) ~> (qpc = "raised")

C33_Witness ==
    /\ qpc = "loop"
    /\ Len(qdf) = 2
    /\ qn > DistinctNames
    /\ qi = DistinctNames
    /\ Len(reps) = DistinctNames

\* C32: the loop of retrieve makes at most lastBatch - firstBatch passes, a
\* position at or behind lastBatch * 100 = 10,000 of the search data is
\* never submitted to bioData and is in none of bios, timeoutCandidates and
\* the logged failures, and at the end of the loop exactly the positions
\* before 10,000 have been submitted.
C32_OnlyFirstHundredBatches ==
    /\ kbatch <= lastBatch - firstBatch
    /\ \A pos \in kdispatched \cup kbios \cup ktimeouts \cup kfailures : pos < BatchLimit
    /\ kbios \cup ktimeouts \cup kfailures \subseteq kdispatched
    /\ kpc = "done" => kdispatched = {pos \in 0..(kn - 1) : pos < BatchLimit}

C32_Witness ==
    /\ kpc = "done"
    /\ kn > BatchLimit
    /\ kbatch = lastBatch
    /\ Cardinality(kdispatched) = BatchLimit
    /\ kbios = kdispatched

\* the row of d2_promptErrors.csv is a row of d4_reruns.csv, of
\* d3_parseErrors.csv or of the rewritten d2_promptErrors.csv
RowKept(row) ==
    \/ \E k \in DOMAIN d4 : d4[k].FullName = FutureOf(row)
    \/ \E k \in DOMAIN d3 : d3[k] = FutureOf(row)
    \/ \E k \in DOMAIN d2 : d2[k] = row

\* C34: when extractAgain has finished, every record that was in
\* d2_promptErrors.csv before the rerun is in d4_reruns.csv, in
\* d3_parseErrors.csv or still in d2_promptErrors.csv.
C34_NoRecordLost ==
    epc = "done" => \A k \in DOMAIN rprompts : RowKept(rprompts[k])

\* a resubmitted record whose response does not parse is in none of the files
C34_ParseFailureKept ==
    epc = "done" =>
        \A k \in DOMAIN Resubmitted : RowKept(Resubmitted[k])

\* the columns of a returned row: textdata and one column per judgment
OutputColumns == {"textdata"} \cup Judgments

\* C35: every row returned by violations_helper has the same fixed set of
\* columns, whether the case text was empty, the classification succeeded or
\* it raised; a row whose classification raised is marked "failed to
\* process" and the rows after it are still processed.
C35_SameColumns ==
    /\ \A k \in DOMAIN violations : DOMAIN violations[k] = OutputColumns
    /\ \A k \in DOMAIN violations :
          voutcomes[k].kind = "raise" =>
              \A c \in DOMAIN violations[k] \ {"textdata"} :
                  violations[k][c] = "failed to process"

\* a row whose classification raised is marked, and the run goes on to the
\* next document
C35_RunContinues ==
    ~(/\ Len(violations) = NumDocs
      /\ voutcomes[1].kind = "raise"
      /\ violations[1]["proactive"] = "failed to process"
      /\ voutcomes[NumDocs].kind = "response")

\* C36: on a successful classification every output column holds the
\* response's judgment of the same name.
C36_ColumnsHoldOwnJudgment ==
    \A k \in DOMAIN violations :
        voutcomes[k].kind = "response" =>
            \A j \in Judgments :
                /\ j \in DOMAIN violations[k]
                /\ violations[k][j] = voutcomes[k].response[j]

====
